---------------------------- MODULE Spec2Model ----------------------------
(***************************************************************************)
(* A model of the streaming back end of sidestream (src-tauri/src).        *)
(*                                                                         *)
(* Part 1 (specification Spec): the cancellation coordinator and the       *)
(* life cycle of a turn.  The shared state is StreamState.cancel_token,    *)
(* an Option<CancellationToken> behind a tokio Mutex.  Every command       *)
(* invocation (send_chat_message, send_voice_message, cancel_chat_stream)  *)
(* is an async task of its own; tasks interleave at their await points     *)
(* and, on the multi-threaded runtime, between any two statements.         *)
(*                                                                         *)
(* The decode loop of the four turn functions (send_chat_message_anthropic,*)
(* _openai, _gemini and send_voice_message_impl) has one shape:            *)
(*     loop { select! { cancelled() => emit cancelled, return Ok           *)
(*                      chunk = stream.next() => Some(Ok)  : decode lines  *)
(*                                               Some(Err) : return Err    *)
(*                                               None      : break } }     *)
(*     emit done; return Ok                                                *)
(* A frame is represented here by the class of the normalized event its    *)
(* data line parses to (StreamEvents); which classes a provider's          *)
(* normalizer can produce differs per provider, the handling of a class    *)
(* does not.                                                               *)
(***************************************************************************)
EXTENDS Integers, Sequences, FiniteSets

\* ------------------------------------------------------------ bounds
\* Number of turn invocations (send_chat_message / send_voice_message).
MaxTurns == 2
\* Outward events the turns together may emit before their terminal events.
MaxEvents == 2

Turns == 1..MaxTurns

\* The classes of normalized stream events a data line can parse to.
\*   Delta       a frame whose handling emits chat-stream-delta
\*   ContainerId a frame whose handling emits chat-container-id
\*   Unknown     a frame that emits nothing (Unknown, or state bookkeeping)
\*   Done        Done / MessageStop / ResponseCompleted / ResponseComplete
\*   Error       Error { message }
StreamEvents == {"Delta", "ContainerId", "Unknown", "Done", "Error"}

EvDelta == "chat-stream-delta"
EvContainer == "chat-container-id"
EvDone == "chat-stream-done"
EvCancelled == "chat-stream-cancelled"

VARIABLES
    cancel_token,   \* StreamState.cancel_token: 0 is None, t is Some(token of turn t)
    is_cancelled,   \* the tokens on which cancel() has been called
    pc,             \* where each turn's task stands
    ret,            \* what each turn's command returned: "none", "Ok" or "Err"
    emitted,        \* the events each turn passed to window.emit, in order
    stream,         \* each turn's response body stream
    raced           \* history: cancel_chat_stream ran after the turn was invoked
                    \* and before the provider delivered anything to it

\* Part 2, the SSE frame decoders (specification SpecSSE).
VARIABLES
    decoder,        \* "blank_line" (Anthropic, OpenAI) or "newline" (Gemini, voice)
    wire,           \* the bytes of the response body, as the provider sent them
    wire_pos,       \* how many of them have arrived in chunks so far
    buffer,         \* let mut buffer = String::new()
    frames          \* the frames (events, lines) split off the buffer, in order

\* Part 3, Gemini's cumulative text (specification SpecDiff).
VARIABLES
    accumulated_text,       \* let mut accumulated_text = String::new()
    accumulated_thinking,   \* let mut accumulated_thinking = String::new()
    full_response,          \* let mut full_response = String::new()
    deltas,                 \* the chat-stream-delta payloads emitted, in order
    cumulative              \* the cumulative values the provider has sent, in order

\* Part 4, the incremental extractor of discovery items (specification SpecJson).
VARIABLES
    parse_state,    \* let mut parse_state = JsonParseState::new()
    doc,            \* the text of the response, as the model streams it
    doc_items,      \* the top-level objects of its "items" array, in order
    doc_pos,        \* how many of its characters have been fed to the extractor
    feed,           \* "chars": one character per call; "chunks": any split
    yielded         \* the items the calls have returned, each with the end of its call

\* Part 5, provider selection (specification SpecRoute).
VARIABLES
    model,              \* the model identifier of a request
    chat_provider,      \* what send_chat_message routed it to, "none" before
    discovery_provider  \* what discover_resources routed it to, "none" before

\* Part 6, the frames of a chat turn (specification SpecFrames).
VARIABLES
    provider,   \* the provider of the turn: "anthropic", "openai" or "google"
    incoming,   \* the frames the provider sends, in order
    frame_pos,  \* how many of them the turn has decoded and handled
    turn_acc,   \* the accumulation state of the turn
    outward,    \* the events emitted, each with the index of its frame
    outcome     \* running, done, or the error the command returned

\* Part 7, a discovery stream (specification SpecDiscovery).
VARIABLES
    d_provider,  \* the provider discover_resources routed to
    d_chunks,    \* what stream.next() yields, in order
    d_pos,       \* how many chunks the loop has taken
    d_text,      \* accumulated_text of the Gemini stream
    d_emitted,   \* the discovery events emitted for the turn_id
    d_ret        \* "starting", "streaming", or what the command returned

\* Part 8, a voice turn (specification SpecVoice).
VARIABLES
    v_response,             \* the whole text the model answers with
    v_pos,                  \* how much of it the frames so far have carried
    v_accumulated_text,     \* accumulated_text
    v_full_response,        \* full_response
    transcription_emitted,  \* transcription_emitted
    v_emitted               \* the events emitted, each with the span of its frame

\* Part 9, a Gemini grounding offset (specification SpecOffset).
VARIABLES
    g_text,       \* the accumulated response text
    g_end_index,  \* segment.end_index of a grounding support, a byte offset
    g_offset      \* the conversion: not done, a char_offset, or a panic

\* Part 10, the lock of the token slot and the start of a turn
\* (specification SpecStart).
VARIABLES
    keys,         \* the providers whose API key is in the secure store
    call_kind,    \* each command call: "none", a provider (a chat turn) or "cancel"
    call_pc,      \* where each call is
    lock_holder,  \* the call that holds state.cancel_token's mutex, 0 for none
    slot,         \* the token in the slot: the call that installed it, 0 for None
    fired,        \* the tokens that have been cancelled
    requests,     \* the calls that have issued a network request
    call_events,  \* the events each call has emitted
    call_ret      \* what each call returned

\* Part 12, the content blocks of an Anthropic turn (specification SpecBlocks).
VARIABLES
    block_frames,  \* the content-block frames of the response, in order
    block_pos,     \* how many of them the turn has handled
    block_acc,     \* the locals of the loop that the block arms read and write
    block_out      \* the deltas emitted, each with the index of its frame

\* Part 13, an OpenAI code-interpreter call (specification SpecInterp).
VARIABLES
    ci_frames,     \* the frames of the response, in order
    ci_pos,        \* how many of them the turn has handled
    pending_code,  \* let mut pending_code = String::new()
    ci_out         \* the deltas emitted, each with the index of its frame

\* Part 14, one Gemini frame through the parser (specification SpecGeminiFrame).
VARIABLES
    gm_frame,   \* the payload of a "data: " line
    gm_pc,      \* "line" before the payload is parsed, "parsed" after
    gm_events   \* the events the loop of the turn matches on

\* Part 15, the end of a voice turn (specification SpecVoiceTurn).
VARIABLES
    v_outcome   \* "running" while the loop of the voice turn runs, then "done"

\* Part 16, the end of the byte stream (specification SpecSseTurn).
VARIABLES
    sse_outcome   \* "running" while the loop reads chunks, "done" after it

\* Part 18, the audio recorder (specifications SpecAudio, SpecAudioLive).
VARIABLES
    rec_state,        \* SharedRecordingData.state
    rec_should_stop,  \* SharedRecordingData.should_stop
    rec_error,        \* SharedRecordingData.error.is_some()
    rec_samples,      \* SharedRecordingData.samples.len()
    cmd_kind,         \* the command each call invokes
    cmd_pc,           \* where each call is in its command
    thread_pc         \* where the recording thread spawned by each call is

\* Part 19, the credential store (specification SpecKeyStore).
VARIABLES
    key_file,     \* the keys in the encrypted file
    keys_cache,   \* static KEYS_CACHE: None, or Some(keys)
    key_op,       \* the operation and the provider of each call
    key_pc,       \* where each call is
    key_local,    \* the call's local `keys`
    key_after,    \* whether the call began after two saves had returned
    key_result    \* what a get returned

turn_vars == <<cancel_token, is_cancelled, pc, ret, emitted, stream, raced>>
sse_vars == <<decoder, wire, wire_pos, buffer, frames>>
diff_vars == <<accumulated_text, accumulated_thinking, full_response, deltas, cumulative>>
json_vars == <<parse_state, doc, doc_items, doc_pos, feed, yielded>>
route_vars == <<model, chat_provider, discovery_provider>>
frame_vars == <<provider, incoming, frame_pos, turn_acc, outward, outcome>>
discovery_vars == <<d_provider, d_chunks, d_pos, d_text, d_emitted, d_ret>>
voice_vars == <<v_response, v_pos, v_accumulated_text, v_full_response, transcription_emitted, v_emitted>>
offset_vars == <<g_text, g_end_index, g_offset>>
start_vars == <<keys, call_kind, call_pc, lock_holder, slot, fired, requests, call_events, call_ret>>
block_vars == <<block_frames, block_pos, block_acc, block_out>>
interp_vars == <<ci_frames, ci_pos, pending_code, ci_out>>
gemini_vars == <<gm_frame, gm_pc, gm_events>>
voiceend_vars == <<v_outcome>>
sseend_vars == <<sse_outcome>>
audio_vars == <<rec_state, rec_should_stop, rec_error, rec_samples, cmd_kind, cmd_pc, thread_pc>>
keystore_vars == <<key_file, keys_cache, key_op, key_pc, key_local, key_after, key_result>>
vars == <<turn_vars, sse_vars, diff_vars, json_vars, route_vars, frame_vars, discovery_vars, voice_vars, offset_vars, start_vars, block_vars, interp_vars, gemini_vars, voiceend_vars, sseend_vars, audio_vars, keystore_vars>>

\* What the steps of one part leave alone: the state of the other parts.
beside_turn == <<sse_vars, diff_vars, json_vars, route_vars, frame_vars, discovery_vars, voice_vars, offset_vars, start_vars, block_vars, interp_vars, gemini_vars, voiceend_vars, sseend_vars, audio_vars, keystore_vars>>
beside_sse == <<turn_vars, diff_vars, json_vars, route_vars, frame_vars, discovery_vars, voice_vars, offset_vars, start_vars, block_vars, interp_vars, gemini_vars, voiceend_vars, sseend_vars, audio_vars, keystore_vars>>
beside_diff == <<turn_vars, sse_vars, json_vars, route_vars, frame_vars, discovery_vars, voice_vars, offset_vars, start_vars, block_vars, interp_vars, gemini_vars, voiceend_vars, sseend_vars, audio_vars, keystore_vars>>
beside_json == <<turn_vars, sse_vars, diff_vars, route_vars, frame_vars, discovery_vars, voice_vars, offset_vars, start_vars, block_vars, interp_vars, gemini_vars, voiceend_vars, sseend_vars, audio_vars, keystore_vars>>
beside_route == <<turn_vars, sse_vars, diff_vars, json_vars, frame_vars, discovery_vars, voice_vars, offset_vars, start_vars, block_vars, interp_vars, gemini_vars, voiceend_vars, sseend_vars, audio_vars, keystore_vars>>
beside_frame == <<turn_vars, sse_vars, diff_vars, json_vars, route_vars, discovery_vars, voice_vars, offset_vars, start_vars, block_vars, interp_vars, gemini_vars, voiceend_vars, sseend_vars, audio_vars, keystore_vars>>
beside_discovery == <<turn_vars, sse_vars, diff_vars, json_vars, route_vars, frame_vars, voice_vars, offset_vars, start_vars, block_vars, interp_vars, gemini_vars, voiceend_vars, sseend_vars, audio_vars, keystore_vars>>
beside_voice == <<turn_vars, sse_vars, diff_vars, json_vars, route_vars, frame_vars, discovery_vars, offset_vars, start_vars, block_vars, interp_vars, gemini_vars, voiceend_vars, sseend_vars, audio_vars, keystore_vars>>
beside_offset == <<turn_vars, sse_vars, diff_vars, json_vars, route_vars, frame_vars, discovery_vars, voice_vars, start_vars, block_vars, interp_vars, gemini_vars, voiceend_vars, sseend_vars, audio_vars, keystore_vars>>
beside_start == <<turn_vars, sse_vars, diff_vars, json_vars, route_vars, frame_vars, discovery_vars, voice_vars, offset_vars, block_vars, interp_vars, gemini_vars, voiceend_vars, sseend_vars, audio_vars, keystore_vars>>
beside_block == <<turn_vars, sse_vars, diff_vars, json_vars, route_vars, frame_vars, discovery_vars, voice_vars, offset_vars, start_vars, interp_vars, gemini_vars, voiceend_vars, sseend_vars, audio_vars, keystore_vars>>
beside_interp == <<turn_vars, sse_vars, diff_vars, json_vars, route_vars, frame_vars, discovery_vars, voice_vars, offset_vars, start_vars, block_vars, gemini_vars, voiceend_vars, sseend_vars, audio_vars, keystore_vars>>
beside_gemini == <<turn_vars, sse_vars, diff_vars, json_vars, route_vars, frame_vars, discovery_vars, voice_vars, offset_vars, start_vars, block_vars, interp_vars, voiceend_vars, sseend_vars, audio_vars, keystore_vars>>
beside_voiceend == <<turn_vars, sse_vars, diff_vars, json_vars, route_vars, frame_vars, discovery_vars, voice_vars, offset_vars, start_vars, block_vars, interp_vars, gemini_vars, sseend_vars, audio_vars, keystore_vars>>
beside_sseend == <<turn_vars, sse_vars, diff_vars, json_vars, route_vars, frame_vars, discovery_vars, voice_vars, offset_vars, start_vars, block_vars, interp_vars, gemini_vars, voiceend_vars, audio_vars, keystore_vars>>
beside_audio == <<turn_vars, sse_vars, diff_vars, json_vars, route_vars, frame_vars, discovery_vars, voice_vars, offset_vars, start_vars, block_vars, interp_vars, gemini_vars, voiceend_vars, sseend_vars, keystore_vars>>
beside_keystore == <<turn_vars, sse_vars, diff_vars, json_vars, route_vars, frame_vars, discovery_vars, voice_vars, offset_vars, start_vars, block_vars, interp_vars, gemini_vars, voiceend_vars, sseend_vars, audio_vars>>
beside_voice_turn == <<turn_vars, sse_vars, diff_vars, json_vars, route_vars, frame_vars, discovery_vars, offset_vars, start_vars, block_vars, interp_vars, gemini_vars, sseend_vars, audio_vars, keystore_vars>>
beside_sse_turn == <<turn_vars, diff_vars, json_vars, route_vars, frame_vars, discovery_vars, voice_vars, offset_vars, start_vars, block_vars, interp_vars, gemini_vars, voiceend_vars, audio_vars, keystore_vars>>

\* The number of entries of s equal to e.
Count(s, e) == Cardinality({i \in 1..Len(s) : s[i] = e})

\* The events a turn has emitted that are not terminal.
NonTerminal(s) == Count(s, EvDelta) + Count(s, EvContainer)

\* The events that are not terminal which the turns 1..n have emitted.
RECURSIVE NonTerminalUpTo(_)
NonTerminalUpTo(n) ==
    IF n = 0 THEN 0 ELSE NonTerminal(emitted[n]) + NonTerminalUpTo(n - 1)

TurnInit ==
    /\ cancel_token = 0
    /\ is_cancelled = {}
    /\ pc = [t \in Turns |-> "idle"]
    /\ ret = [t \in Turns |-> "none"]
    /\ emitted = [t \in Turns |-> <<>>]
    /\ stream = [t \in Turns |-> "none"]
    /\ raced = [t \in Turns |-> FALSE]

\* ------------------------------------------------------------ a turn returns

\* return Ok(()) / return Err(..): the task ends and drops its response stream.
Return(t, result) ==
    /\ pc' = [pc EXCEPT ![t] = "returned"]
    /\ ret' = [ret EXCEPT ![t] = result]
    /\ stream' = [stream EXCEPT ![t] = "none"]

\* window.emit(event): the event is appended to what the turn has sent out.
Emit(t, event) == emitted' = [emitted EXCEPT ![t] = Append(@, event)]

\* ------------------------------------------------------------ start-up

\* send_chat_message / send_voice_message is invoked: the task creates its
\* token (CancellationToken::new()) and waits for the lock.  Turns are
\* numbered in the order of their invocation.
send_chat_message(t) ==
    /\ pc[t] = "idle"
    /\ \A u \in Turns : u < t => pc[u] # "idle"
    /\ pc' = [pc EXCEPT ![t] = "install"]
    /\ UNCHANGED <<cancel_token, is_cancelled, ret, emitted, stream, raced>>
    /\ UNCHANGED beside_turn

\* An install that cancels the token it replaces.
InstallToken_CancelsPrevious(t) ==
    /\ pc[t] = "install"
    /\ cancel_token' = t
    /\ is_cancelled' = is_cancelled \cup ({cancel_token} \ {0})
    /\ pc' = [pc EXCEPT ![t] = "api_key"]
    /\ UNCHANGED <<ret, emitted, stream, raced>>
    /\ UNCHANGED beside_turn

\* { let mut token_guard = state.cancel_token.lock().await;
\*   *token_guard = Some(cancel_token.clone()); }
\* The previous content of the slot is dropped; dropping a token does not
\* cancel it.
InstallToken(t) ==
    /\ pc[t] = "install"
    /\ cancel_token' = t
    /\ pc' = [pc EXCEPT ![t] = "api_key"]
    /\ UNCHANGED <<is_cancelled, ret, emitted, stream, raced>>
    /\ UNCHANGED beside_turn

\* let api_key = get_api_key_async(app, provider).await?;
GetApiKey(t) ==
    /\ pc[t] = "api_key"
    /\ \/ /\ pc' = [pc EXCEPT ![t] = "connect"]
          /\ UNCHANGED <<ret, stream>>
       \/ Return(t, "Err")
    /\ UNCHANGED <<cancel_token, is_cancelled, emitted, raced>>
    /\ UNCHANGED beside_turn

\* let response = client.send_streaming_request(..).await.map_err(..)?;
\* let mut stream = response.bytes_stream();
SendStreamingRequest(t) ==
    /\ pc[t] = "connect"
    /\ \/ /\ pc' = [pc EXCEPT ![t] = "select"]
          /\ stream' = [stream EXCEPT ![t] = "fresh"]
          /\ UNCHANGED ret
       \/ Return(t, "Err")
    /\ UNCHANGED <<cancel_token, is_cancelled, emitted, raced>>
    /\ UNCHANGED beside_turn

\* ------------------------------------------------------------ the provider

\* The network makes the next item of the body stream available: a chunk of
\* bytes, a transport error or the end of the stream.  "fresh" is an open
\* stream that has delivered nothing yet, "waiting" one whose earlier items
\* were consumed.
Deliver(t) ==
    /\ stream[t] \in {"fresh", "waiting"}
    /\ stream' = [stream EXCEPT ![t] = "ready"]
    /\ UNCHANGED <<cancel_token, is_cancelled, pc, ret, emitted, raced>>
    /\ UNCHANGED beside_turn

\* ------------------------------------------------------------ the decode loop

\* A cancel branch that breaks out of the loop instead of returning, and so
\* falls through to the emission of done after the loop.
SelectCancelled_Break(t) ==
    /\ pc[t] = "select"
    /\ t \in is_cancelled
    /\ emitted' = [emitted EXCEPT ![t] = @ \o <<EvCancelled, EvDone>>]
    /\ Return(t, "Ok")
    /\ UNCHANGED <<cancel_token, is_cancelled, raced>>
    /\ UNCHANGED beside_turn

\* A cancel branch that flushes the text accumulated so far as a last delta.
SelectCancelled_Flush(t) ==
    /\ pc[t] = "select"
    /\ t \in is_cancelled
    /\ emitted' = [emitted EXCEPT ![t] = @ \o <<EvDelta, EvCancelled>>]
    /\ Return(t, "Ok")
    /\ UNCHANGED <<cancel_token, is_cancelled, raced>>
    /\ UNCHANGED beside_turn

\* select! branch  _ = cancel_token.cancelled() => { emit cancelled; return Ok }
SelectCancelled(t) ==
    /\ pc[t] = "select"
    /\ t \in is_cancelled
    /\ Emit(t, EvCancelled)
    /\ Return(t, "Ok")
    /\ UNCHANGED <<cancel_token, is_cancelled, raced>>
    /\ UNCHANGED beside_turn

\* select! branch  chunk = stream.next() => match chunk { .. }
\* tokio::select! without `biased;` polls its branches in random order, so
\* this branch may win whenever an item is ready, also when the token has
\* been fired.
\*   Some(Ok(bytes)): the bytes are pushed on the buffer; the buffer then
\*                    holds complete frames ("lines") or none ("select")
\*   Some(Err(e))   : return Err(e.to_string())
\*   None           : break; emit done; return Ok
SelectChunk(t) ==
    /\ pc[t] = "select"
    /\ stream[t] = "ready"
    /\ \/ /\ \E next \in {"lines", "select"} : pc' = [pc EXCEPT ![t] = next]
          /\ stream' = [stream EXCEPT ![t] = "waiting"]
          /\ UNCHANGED <<ret, emitted>>
       \/ /\ Return(t, "Err")
          /\ UNCHANGED emitted
       \/ /\ Emit(t, EvDone)
          /\ Return(t, "Ok")
    /\ UNCHANGED <<cancel_token, is_cancelled, raced>>
    /\ UNCHANGED beside_turn

\* After a data line: the while loop finds another frame in the buffer
\* ("lines") or not, and the task is back at the select ("select").
NextLine(t) ==
    /\ \E next \in {"lines", "select"} : pc' = [pc EXCEPT ![t] = next]
    /\ UNCHANGED <<ret, stream>>

\* A frame whose handling emits one chat-stream-delta (text, thinking,
\* citation, tool execution), and goes on.
OnDelta(t) ==
    /\ NonTerminalUpTo(MaxTurns) < MaxEvents
    /\ Emit(t, EvDelta)
    /\ NextLine(t)

\* MessageStart / MessageDelta { container_id: Some(id) }: emit
\* chat-container-id, and go on.
OnContainerId(t) ==
    /\ NonTerminalUpTo(MaxTurns) < MaxEvents
    /\ Emit(t, EvContainer)
    /\ NextLine(t)

\* Unknown => {}
OnUnknown(t) ==
    /\ UNCHANGED emitted
    /\ NextLine(t)

\* A Done arm that emits done and goes on decoding instead of returning.
OnDone_KeepsDecoding(t) ==
    /\ Emit(t, EvDone)
    /\ NextLine(t)

\* Done | MessageStop | ResponseCompleted | ResponseComplete:
\* emit chat-stream-done; return Ok(())
OnDone(t) ==
    /\ Emit(t, EvDone)
    /\ Return(t, "Ok")

\* Error { message } => return Err(message)
OnError(t) ==
    /\ UNCHANGED emitted
    /\ Return(t, "Err")

\* One data line of the chunk being decoded is parsed and handled; classes
\* are the event classes the lines of this stream can parse to.
ProcessLine(t, classes) ==
    /\ pc[t] = "lines"
    /\ \E ev \in classes :
          CASE ev = "Delta" -> OnDelta(t)
            [] ev = "ContainerId" -> OnContainerId(t)
            [] ev = "Unknown" -> OnUnknown(t)
            [] ev = "Done" -> OnDone(t)
            [] ev = "Error" -> OnError(t)
    /\ UNCHANGED <<cancel_token, is_cancelled, raced>>
    /\ UNCHANGED beside_turn

\* ------------------------------------------------------------ cancel

\* A turn that has been invoked, has not returned, and to which the provider
\* has delivered nothing yet.
BeforeAnyFrame(t) == pc[t] \notin {"idle", "returned"} /\ stream[t] \in {"none", "fresh"}

\* A cancel that fires the token in the slot without taking it out.
cancel_chat_stream_Peek ==
    /\ cancel_token' = cancel_token
    /\ is_cancelled' = IF cancel_token # 0 THEN is_cancelled \cup {cancel_token}
                       ELSE is_cancelled
    /\ raced' = [t \in Turns |-> raced[t] \/ BeforeAnyFrame(t)]
    /\ UNCHANGED <<pc, ret, emitted, stream>>
    /\ UNCHANGED beside_turn

\* let mut token_guard = state.cancel_token.lock().await;
\* if let Some(token) = token_guard.take() { token.cancel(); }
\* Ok(())
cancel_chat_stream ==
    /\ cancel_token' = 0
    /\ is_cancelled' = IF cancel_token # 0 THEN is_cancelled \cup {cancel_token}
                       ELSE is_cancelled
    /\ raced' = [t \in Turns |-> raced[t] \/ BeforeAnyFrame(t)]
    /\ UNCHANGED <<pc, ret, emitted, stream>>
    /\ UNCHANGED beside_turn

TurnNext ==
    \/ \E t \in Turns : send_chat_message(t)
    \/ \E t \in Turns : InstallToken(t)
    \/ \E t \in Turns : GetApiKey(t)
    \/ \E t \in Turns : SendStreamingRequest(t)
    \/ \E t \in Turns : Deliver(t)
    \/ \E t \in Turns : SelectCancelled(t)
    \/ \E t \in Turns : SelectChunk(t)
    \/ \E t \in Turns : ProcessLine(t, StreamEvents \ {"ContainerId"})
    \/ cancel_chat_stream

\* One turn and any number of cancel_chat_stream calls, with every class
\* of frame.
OneTurnNext ==
    \/ send_chat_message(1)
    \/ InstallToken(1)
    \/ GetApiKey(1)
    \/ SendStreamingRequest(1)
    \/ Deliver(1)
    \/ SelectCancelled(1)
    \/ SelectChunk(1)
    \/ ProcessLine(1, StreamEvents)
    \/ cancel_chat_stream


(***************************************************************************)
(* Part 2: the SSE frame decoders.                                         *)
(*                                                                         *)
(* The body arrives as chunks of bytes cut at arbitrary byte positions.    *)
(* Each chunk is decoded on its own with String::from_utf8_lossy and       *)
(* pushed on the buffer; complete frames are then split off the front of   *)
(* the buffer.  Bytes and characters are kept apart: the text on the wire  *)
(* is UTF-8, and one character of it ("U+00E9") takes two bytes.           *)
(***************************************************************************)

\* The characters of a text: an ASCII character that is no line ending,
\* line feed, carriage return, and a character whose UTF-8 form is the two
\* bytes C3 A9.  U+FFFD is the replacement character.
WireChars == {"x", "LF", "CR", "U+00E9"}
\* Longest text on the wire, in characters.
MaxText == 4

RECURSIVE Utf8(_)
\* The UTF-8 bytes of a text.
Utf8(s) ==
    IF s = <<>> THEN <<>>
    ELSE (IF Head(s) = "U+00E9" THEN <<"C3", "A9">> ELSE <<Head(s)>>) \o Utf8(Tail(s))

RECURSIVE from_utf8_lossy(_)
\* String::from_utf8_lossy(&bytes): a lead byte followed by its continuation
\* byte is one character; a lead byte without it, or a continuation byte on
\* its own, is replaced by U+FFFD.
from_utf8_lossy(b) ==
    IF b = <<>> THEN <<>>
    ELSE IF Head(b) = "C3"
         THEN IF Len(b) >= 2 /\ b[2] = "A9"
              THEN <<"U+00E9">> \o from_utf8_lossy(SubSeq(b, 3, Len(b)))
              ELSE <<"U+FFFD">> \o from_utf8_lossy(Tail(b))
    ELSE IF Head(b) = "A9"
         THEN <<"U+FFFD">> \o from_utf8_lossy(Tail(b))
    ELSE <<Head(b)>> \o from_utf8_lossy(Tail(b))

\* buffer.find(pat): the least index at which pat starts in s, 0 for None.
Find(s, pat) ==
    LET hits == {i \in 1..(Len(s) - Len(pat) + 1) : SubSeq(s, i, i + Len(pat) - 1) = pat}
    IN IF hits = {} THEN 0 ELSE CHOOSE i \in hits : \A j \in hits : i <= j

RECURSIVE trim_end_matches_cr(_)
\* line.trim_end_matches('\r'): every trailing carriage return is removed.
trim_end_matches_cr(s) ==
    IF s # <<>> /\ s[Len(s)] = "CR" THEN trim_end_matches_cr(SubSeq(s, 1, Len(s) - 1))
    ELSE s

RECURSIVE SplitBlankLine(_, _)
\* while let Some(event_end) = buffer.find("\n\n") {
\*     let event = buffer[..event_end].to_string();
\*     buffer = buffer[event_end + 2..].to_string(); .. }
\* The frames split off buf, after out, and what stays in the buffer.
SplitBlankLine(buf, out) ==
    LET event_end == Find(buf, <<"LF", "LF">>)
    IN IF event_end = 0 THEN [frames |-> out, buffer |-> buf]
       ELSE SplitBlankLine(SubSeq(buf, event_end + 2, Len(buf)),
                           Append(out, SubSeq(buf, 1, event_end - 1)))

RECURSIVE SplitNewline(_, _)
\* while let Some(line_end) = buffer.find('\n') {
\*     let line = buffer[..line_end].trim_end_matches('\r').to_string();
\*     buffer = buffer[line_end + 1..].to_string(); .. }
SplitNewline(buf, out) ==
    LET line_end == Find(buf, <<"LF">>)
    IN IF line_end = 0 THEN [frames |-> out, buffer |-> buf]
       ELSE SplitNewline(SubSeq(buf, line_end + 1, Len(buf)),
                         Append(out, trim_end_matches_cr(SubSeq(buf, 1, line_end - 1))))

\* The texts of at most n characters.
RECURSIVE TextsUpTo(_)
TextsUpTo(n) ==
    IF n = 0 THEN {<<>>}
    ELSE LET shorter == TextsUpTo(n - 1)
         IN shorter \cup {Append(s, c) : s \in shorter, c \in WireChars}

SseIdle ==
    /\ decoder = "none"
    /\ wire = <<>>
    /\ wire_pos = 0
    /\ buffer = <<>>
    /\ frames = <<>>

\* A well-formed text is put on the wire for one of the two decoders.
SseInit ==
    /\ decoder \in {"blank_line", "newline"}
    /\ wire \in {Utf8(s) : s \in TextsUpTo(MaxText)}
    /\ wire_pos = 0
    /\ buffer = <<>>
    /\ frames = <<>>

\* Some(Ok(bytes)) in send_chat_message_anthropic / _openai: the next n
\* bytes arrive as one chunk.
ChunkBlankLine(n) ==
    /\ decoder = "blank_line"
    /\ wire_pos + n <= Len(wire)
    /\ LET bytes == SubSeq(wire, wire_pos + 1, wire_pos + n)
           text == from_utf8_lossy(bytes)
           split == SplitBlankLine(buffer \o text, frames)
       IN /\ buffer' = split.buffer
          /\ frames' = split.frames
    /\ wire_pos' = wire_pos + n
    /\ UNCHANGED <<decoder, wire>>
    /\ UNCHANGED beside_sse

\* Some(Ok(bytes)) in send_chat_message_gemini / send_voice_message_impl.
ChunkNewline(n) ==
    /\ decoder = "newline"
    /\ wire_pos + n <= Len(wire)
    /\ LET bytes == SubSeq(wire, wire_pos + 1, wire_pos + n)
           text == from_utf8_lossy(bytes)
           split == SplitNewline(buffer \o text, frames)
       IN /\ buffer' = split.buffer
          /\ frames' = split.frames
    /\ wire_pos' = wire_pos + n
    /\ UNCHANGED <<decoder, wire>>
    /\ UNCHANGED beside_sse

SseNext ==
    \/ \E n \in 1..(2 * MaxText) : ChunkBlankLine(n)
    \/ \E n \in 1..(2 * MaxText) : ChunkNewline(n)

(***************************************************************************)
(* Part 3: Gemini's cumulative text.                                       *)
(*                                                                         *)
(* Gemini sends the whole text (and the whole thinking text) so far in     *)
(* every frame; send_chat_message_gemini tracks the last value of each     *)
(* and emits the difference.  Strings are sequences of characters.         *)
(***************************************************************************)

DiffChars == {"a", "b"}
\* Longest cumulative value, in characters.
MaxStr == 2
\* Number of cumulative values in one stream.
MaxCumulative == 3

RECURSIVE StringsUpTo(_)
StringsUpTo(n) ==
    IF n = 0 THEN {<<>>}
    ELSE LET shorter == StringsUpTo(n - 1)
         IN shorter \cup {Append(s, c) : s \in shorter, c \in DiffChars}

\* t.starts_with(&acc)
starts_with(t, acc) == Len(acc) <= Len(t) /\ SubSeq(t, 1, Len(acc)) = acc

\* A difference that compares lengths only, and not the prefix itself.
new_text_ByLength(t, acc) ==
    IF Len(acc) <= Len(t) THEN SubSeq(t, Len(acc) + 1, Len(t)) ELSE t

\* let new_text = if t.starts_with(&accumulated_text) {
\*     t[accumulated_text.len()..].to_string()
\* } else { accumulated_text.clear(); t.clone() };
new_text(t, acc) ==
    IF starts_with(t, acc) THEN SubSeq(t, Len(acc) + 1, Len(t)) ELSE t

DiffIdle ==
    /\ accumulated_text = <<>>
    /\ accumulated_thinking = <<>>
    /\ full_response = <<>>
    /\ deltas = <<>>
    /\ cumulative = <<>>

DiffInit == DiffIdle

\* GeminiStreamEvent::TextDelta { text: t }
TextDelta(t) ==
    /\ Len(cumulative) < MaxCumulative
    /\ cumulative' = Append(cumulative, [kind |-> "text", text |-> t])
    /\ LET new == new_text(t, accumulated_text)
       IN /\ accumulated_text' = t
          /\ IF new # <<>>
             THEN /\ full_response' = full_response \o new
                  /\ deltas' = Append(deltas, [kind |-> "text", text |-> new])
             ELSE UNCHANGED <<full_response, deltas>>
    /\ UNCHANGED accumulated_thinking
    /\ UNCHANGED beside_diff

\* GeminiStreamEvent::ThinkingDelta { text: thinking_text }
ThinkingDelta(t) ==
    /\ Len(cumulative) < MaxCumulative
    /\ cumulative' = Append(cumulative, [kind |-> "thinking", text |-> t])
    /\ LET new == new_text(t, accumulated_thinking)
       IN /\ accumulated_thinking' = t
          /\ IF new # <<>>
             THEN deltas' = Append(deltas, [kind |-> "thinking", text |-> new])
             ELSE UNCHANGED deltas
    /\ UNCHANGED <<accumulated_text, full_response>>
    /\ UNCHANGED beside_diff

DiffNext ==
    \/ \E t \in StringsUpTo(MaxStr) : TextDelta(t)
    \/ \E t \in StringsUpTo(MaxStr) : ThinkingDelta(t)

(***************************************************************************)
(* Part 4: the incremental extractor of discovery items.                   *)
(*                                                                         *)
(* The discovery model answers with a JSON document {"items":[o1,..,on]},  *)
(* streamed as text deltas.  extract_items_from_buffer is called on every  *)
(* delta with one JsonParseState and returns the items completed by it.    *)
(* A text is a sequence of characters.  "F" stands for the member list     *)
(* that makes an object a DiscoveryItem (all eight fields present), "a"    *)
(* for one other member; Q is the double quote and BS the backslash.       *)
(***************************************************************************)

\* Number of top-level objects in the items array.
MaxItems == 2
\* if state.recent_chars.len() > 20 { state.recent_chars.remove(0); }
RecentChars == 20

\* JsonParseState::new()
JsonParseState_new ==
    [found_items_key |-> FALSE, in_items_array |-> FALSE, brace_depth |-> 0,
     bracket_depth |-> 0, current_item |-> <<>>, in_string |-> FALSE,
     escape_next |-> FALSE, recent_chars |-> <<>>]

\* s.contains(pat)
contains(s, pat) == Find(s, pat) # 0
\* s.ends_with(pat)
ends_with(s, pat) == Len(s) >= Len(pat) /\ SubSeq(s, Len(s) - Len(pat) + 1, Len(s)) = pat

RECURSIVE trim_start(_)
trim_start(s) == IF s # <<>> /\ Head(s) = " " THEN trim_start(Tail(s)) ELSE s
RECURSIVE trim_end(_)
trim_end(s) == IF s # <<>> /\ s[Len(s)] = " " THEN trim_end(SubSeq(s, 1, Len(s) - 1)) ELSE s
\* s.trim()
trim(s) == trim_end(trim_start(s))

\* The brace depth before position i of an object's text.
DepthAt(s, i) ==
    Cardinality({j \in 1..(i - 1) : s[j] = "{"}) - Cardinality({j \in 1..(i - 1) : s[j] = "}"})

\* serde_json::from_str::<DiscoveryItem>(trimmed): Ok when the text is an
\* object whose own members include every field of DiscoveryItem; members
\* it does not know are ignored.  The parsed item is stood for by its text.
from_str_DiscoveryItem(s) ==
    IF \E i \in 1..Len(s) : s[i] = "F" /\ DepthAt(s, i) = 1 THEN <<s>> ELSE <<>>

\* current_item.push(c) if brace_depth > 0
PushInItem(st, c) ==
    IF st.brace_depth > 0 THEN [st EXCEPT !.current_item = Append(@, c)] ELSE st

\* A tracking of the key that goes on whenever the extractor is outside an
\* array, so that a second "items" array is entered too.
TrackItemsKey_WheneverOutside(st, c) ==
    IF st.in_items_array THEN [state |-> st, found |-> FALSE]
    ELSE LET pushed == Append(st.recent_chars, c)
             recent == IF Len(pushed) > RecentChars THEN Tail(pushed) ELSE pushed
             hit == /\ contains(recent, <<"Q", "i", "t", "e", "m", "s", "Q">>)
                    /\ ends_with(recent, <<"[">>)
         IN IF hit
            THEN [state |-> [st EXCEPT !.recent_chars = recent, !.found_items_key = TRUE,
                                       !.in_items_array = TRUE],
                  found |-> TRUE]
            ELSE [state |-> [st EXCEPT !.recent_chars = recent], found |-> FALSE]

\* The part of the loop body that tracks recent_chars: the state after it,
\* and whether the body ends there (continue).
TrackItemsKey(st, c) ==
    IF st.found_items_key THEN [state |-> st, found |-> FALSE]
    ELSE LET pushed == Append(st.recent_chars, c)
             recent == IF Len(pushed) > RecentChars THEN Tail(pushed) ELSE pushed
             hit == /\ contains(recent, <<"Q", "i", "t", "e", "m", "s", "Q">>)
                    /\ \/ ends_with(recent, <<"[">>)
                       \/ ends_with(recent, <<":", " ", "[">>)
                       \/ ends_with(recent, <<":", "[">>)
         IN IF hit
            THEN [state |-> [st EXCEPT !.recent_chars = recent, !.found_items_key = TRUE,
                                       !.in_items_array = TRUE],
                  found |-> TRUE]
            ELSE [state |-> [st EXCEPT !.recent_chars = recent], found |-> FALSE]

\* A match that keeps a candidate that failed to parse in current_item.
Structural_KeepsFailedCandidate(st, c, items) ==
    CASE c = "{" ->
           [state |-> [st EXCEPT !.brace_depth = @ + 1, !.current_item = Append(@, c)],
            items |-> items]
      [] c = "}" ->
           LET item == Append(st.current_item, c)
               depth == st.brace_depth - 1
               parsed == from_str_DiscoveryItem(trim(item))
           IN IF depth = 0 /\ item # <<>> /\ parsed # <<>>
              THEN [state |-> [st EXCEPT !.brace_depth = depth, !.current_item = <<>>],
                    items |-> items \o parsed]
              ELSE [state |-> [st EXCEPT !.brace_depth = depth, !.current_item = item],
                    items |-> items]
      [] c = "[" ->
           [state |-> IF st.brace_depth > 0
                      THEN [st EXCEPT !.current_item = Append(@, c), !.bracket_depth = @ + 1]
                      ELSE st,
            items |-> items]
      [] c = "]" ->
           [state |-> IF st.brace_depth > 0
                      THEN [st EXCEPT !.current_item = Append(@, c), !.bracket_depth = @ - 1]
                      ELSE [st EXCEPT !.in_items_array = FALSE],
            items |-> items]
      [] OTHER -> [state |-> PushInItem(st, c), items |-> items]

\* match c { '{' .. '}' .. '[' .. ']' .. _ }: the state and the items after it.
Structural(st, c, items) ==
    CASE c = "{" ->
           [state |-> [st EXCEPT !.brace_depth = @ + 1, !.current_item = Append(@, c)],
            items |-> items]
      [] c = "}" ->
           LET item == Append(st.current_item, c)
               depth == st.brace_depth - 1
           IN IF depth = 0 /\ item # <<>>
              THEN [state |-> [st EXCEPT !.brace_depth = depth, !.current_item = <<>>],
                    items |-> items \o from_str_DiscoveryItem(trim(item))]
              ELSE [state |-> [st EXCEPT !.brace_depth = depth, !.current_item = item],
                    items |-> items]
      [] c = "[" ->
           [state |-> IF st.brace_depth > 0
                      THEN [st EXCEPT !.current_item = Append(@, c), !.bracket_depth = @ + 1]
                      ELSE st,
            items |-> items]
      [] c = "]" ->
           [state |-> IF st.brace_depth > 0
                      THEN [st EXCEPT !.current_item = Append(@, c), !.bracket_depth = @ - 1]
                      ELSE [st EXCEPT !.in_items_array = FALSE],
            items |-> items]
      [] OTHER -> [state |-> PushInItem(st, c), items |-> items]

\* A loop body that does not track strings: a brace inside a string counts.
ForChar_BracesInStrings(st0, c, items) ==
    LET key == TrackItemsKey(st0, c)
        st == key.state
    IN IF key.found THEN [state |-> st, items |-> items]
       ELSE IF ~ st.in_items_array THEN [state |-> st, items |-> items]
       ELSE Structural(st, c, items)

\* A loop body without the one-character escape: a quote after a backslash
\* ends the string.
ForChar_NoEscape(st0, c, items) ==
    LET key == TrackItemsKey(st0, c)
        st == key.state
    IN IF key.found THEN [state |-> st, items |-> items]
       ELSE IF ~ st.in_items_array THEN [state |-> st, items |-> items]
       ELSE IF c = "Q"
            THEN [state |-> PushInItem([st EXCEPT !.in_string = ~ @], c), items |-> items]
       ELSE IF st.in_string
            THEN [state |-> PushInItem(st, c), items |-> items]
       ELSE Structural(st, c, items)

\* One turn of `for c in buffer.chars() { .. }`.
ForChar(st0, c, items) ==
    LET key == TrackItemsKey(st0, c)
        st == key.state
    IN IF key.found THEN [state |-> st, items |-> items]
       ELSE IF ~ st.in_items_array THEN [state |-> st, items |-> items]
       ELSE IF st.escape_next
            THEN [state |-> PushInItem([st EXCEPT !.escape_next = FALSE], c), items |-> items]
       ELSE IF c = "BS" /\ st.in_string
            THEN [state |-> PushInItem([st EXCEPT !.escape_next = TRUE], c), items |-> items]
       ELSE IF c = "Q"
            THEN [state |-> PushInItem([st EXCEPT !.in_string = ~ @], c), items |-> items]
       ELSE IF st.in_string
            THEN [state |-> PushInItem(st, c), items |-> items]
       ELSE Structural(st, c, items)

RECURSIVE ForChars(_, _, _)
\* for c in buffer.chars() { .. }
\* (The test on the depth makes TLC compute the state after each character
\* before it goes on to the next one; it is always true.)
ForChars(buf, st, items) ==
    IF buf = <<>> THEN [state |-> st, items |-> items]
    ELSE LET one == ForChar(st, Head(buf), items)
         IN IF one.state.brace_depth \in Int
            THEN ForChars(Tail(buf), one.state, one.items)
            ELSE one

\* An extractor that keeps the string mode in a local of the call.
extract_items_from_buffer_LocalString(buf, st) ==
    ForChars(buf, [st EXCEPT !.in_string = FALSE], <<>>)

\* fn extract_items_from_buffer(buffer: &str, state: &mut JsonParseState)
\*     -> Vec<DiscoveryItem>
extract_items_from_buffer(buf, st) == ForChars(buf, st, <<>>)

\* The top-level objects the array can hold: a DiscoveryItem; {"a":1}, an
\* object that is no DiscoveryItem; items with a nested object, a nested
\* array, a string holding a closing brace, and a string holding an escaped
\* quote and a closing brace.
ItemTexts ==
    { <<"{", "F", "}">>,
      <<"{", "a", "}">>,
      <<"{", "F", ",", "a", "{", "a", "}", "}">>,
      <<"{", "F", ",", "a", "[", "a", "]", "}">>,
      <<"{", "F", ",", "Q", "}", "Q", "}">>,
      <<"{", "F", ",", "Q", "BS", "Q", "}", "Q", "}">> }

\* What precedes the first item: {"items":[   {"items": [   {"a":1,"items":[
DocPrefixes ==
    { <<"{", "Q", "i", "t", "e", "m", "s", "Q", ":", "[">>,
      <<"{", "Q", "i", "t", "e", "m", "s", "Q", ":", " ", "[">>,
      <<"{", "a", ",", "Q", "i", "t", "e", "m", "s", "Q", ":", "[">> }

RECURSIVE ItemLists(_)
\* The lists of at most n top-level objects.
ItemLists(n) ==
    IF n = 0 THEN {<<>>}
    ELSE LET shorter == ItemLists(n - 1)
         IN shorter \cup {Append(l, o) : l \in shorter, o \in ItemTexts}

RECURSIVE Join(_)
\* The objects of a list, separated by commas.
Join(l) ==
    IF l = <<>> THEN <<>>
    ELSE IF Len(l) = 1 THEN l[1]
    ELSE l[1] \o <<",">> \o Join(Tail(l))

JsonIdle ==
    /\ parse_state = <<>>
    /\ doc = <<>>
    /\ doc_items = <<>>
    /\ doc_pos = 0
    /\ feed = "none"
    /\ yielded = <<>>

\* A well-formed document is about to be streamed, one character per delta
\* or in deltas of any length.
JsonInit ==
    /\ parse_state = JsonParseState_new
    /\ doc_items \in ItemLists(MaxItems)
    /\ \E prefix \in DocPrefixes : doc = prefix \o Join(doc_items) \o <<"]", "}">>
    /\ doc_pos = 0
    /\ feed \in {"chars", "chunks"}
    /\ yielded = <<>>

\* let items = extract_items_from_buffer(&delta_text, &mut parse_state);
\* for item in items { emit discovery-item }
\* The next n characters of the document arrive as one text delta.
ExtractDelta(n) ==
    /\ doc_pos + n <= Len(doc)
    /\ feed = "chars" => n = 1
    /\ LET got == extract_items_from_buffer(SubSeq(doc, doc_pos + 1, doc_pos + n), parse_state)
       IN /\ parse_state' = got.state
          /\ yielded' = yielded \o [i \in 1..Len(got.items) |->
                                       [to |-> doc_pos + n, item |-> got.items[i]]]
    /\ doc_pos' = doc_pos + n
    /\ UNCHANGED <<doc, doc_items, feed>>
    /\ UNCHANGED beside_json

JsonNext == \E n \in 1..Len(doc) : ExtractDelta(n)

(***************************************************************************)
(* Part 5: provider selection.                                             *)
(*                                                                         *)
(* send_chat_message (llm.rs) and discover_resources (discovery.rs) each   *)
(* have a get_provider_for_model of their own.  A model identifier is a    *)
(* sequence of characters; "google" is the provider name of Gemini.        *)
(***************************************************************************)

\* Characters appended to a stem.
MaxTail == 1

\* Identifiers of each family, of no family, and near misses (upper case,
\* a leading space, o1).
ModelStems ==
    { <<"g", "p", "t", "-", "4", "o">>,
      <<"o", "3", "-", "m">>,
      <<"o", "4", "-", "m">>,
      <<"o", "1">>,
      <<"g", "e", "m", "i", "n", "i", "-", "2">>,
      <<"c", "l", "a", "u", "d", "e", "-", "o">>,
      <<"u", "n", "k", "n", "o", "w", "n">>,
      <<"G", "P", "T">>,
      <<" ", "g", "p", "t">>,
      <<"x", "g", "e", "m", "i", "n", "i">> }

TailChars == {"g", "o", "3", "-"}

RECURSIVE WithTails(_, _)
\* The identifiers of ids, each followed by at most n characters.
WithTails(ids, n) ==
    IF n = 0 THEN ids
    ELSE LET shorter == WithTails(ids, n - 1)
         IN shorter \cup {Append(m, c) : m \in shorter, c \in TailChars}

\* Every beginning of a stem (the empty identifier too), with its tails.
ModelIds ==
    WithTails(UNION {{SubSeq(m, 1, k) : k \in 0..Len(m)} : m \in ModelStems}, MaxTail)

\* A discovery router that does not know the o4 family.
discovery_get_provider_for_model_NoO4(m) ==
    IF starts_with(m, <<"g", "p", "t">>) \/ starts_with(m, <<"o", "3">>)
    THEN "openai"
    ELSE IF starts_with(m, <<"g", "e", "m", "i", "n", "i">>) THEN "google"
    ELSE "anthropic"

\* llm.rs: fn get_provider_for_model(model: &str) -> &'static str
get_provider_for_model(m) ==
    IF \/ starts_with(m, <<"g", "p", "t">>)
       \/ starts_with(m, <<"o", "3">>)
       \/ starts_with(m, <<"o", "4">>)
    THEN "openai"
    ELSE IF starts_with(m, <<"g", "e", "m", "i", "n", "i">>) THEN "google"
    ELSE "anthropic"

\* discovery.rs: fn get_provider_for_model(model: &str) -> &'static str
discovery_get_provider_for_model(m) ==
    IF \/ starts_with(m, <<"g", "p", "t">>)
       \/ starts_with(m, <<"o", "3">>)
       \/ starts_with(m, <<"o", "4">>)
    THEN "openai"
    ELSE IF starts_with(m, <<"g", "e", "m", "i", "n", "i">>) THEN "google"
    ELSE "anthropic"

RouteIdle ==
    /\ model = <<>>
    /\ chat_provider = "none"
    /\ discovery_provider = "none"

RouteInit ==
    /\ model \in ModelIds
    /\ chat_provider = "none"
    /\ discovery_provider = "none"

\* send_chat_message: let provider = get_provider_for_model(&model);
RouteChat ==
    /\ chat_provider = "none"
    /\ chat_provider' = get_provider_for_model(model)
    /\ UNCHANGED <<model, discovery_provider>>
    /\ UNCHANGED beside_route

\* discover_resources: let provider = get_provider_for_model(&model);
RouteDiscovery ==
    /\ discovery_provider = "none"
    /\ discovery_provider' = discovery_get_provider_for_model(model)
    /\ UNCHANGED <<model, chat_provider>>
    /\ UNCHANGED beside_route

RouteNext == RouteChat \/ RouteDiscovery

(***************************************************************************)
(* Part 6: the frames of a chat turn.                                      *)
(*                                                                         *)
(* The loop of send_chat_message_anthropic / _openai / _gemini hands the   *)
(* payload of every "data: " line to the provider's parse_sse_event and    *)
(* matches on the event.  A frame is its payload: what kind of JSON it is  *)
(* and the values the handlers read from it.  A text is a sequence of      *)
(* characters; "U+00E9" is a character of two UTF-8 bytes.                 *)
(***************************************************************************)

\* Frames in one stream.
MaxFrames == 3

Providers == {"anthropic", "openai", "google"}
ProviderMessage == <<"o", "v", "e", "r", "l", "o", "a", "d", "e", "d">>
ParagraphBreak == <<"LF", "LF">>

\* The payloads of a stream: text that is not JSON, the provider's error
\* object, a text value, a citation, the start of a text or thinking block,
\* the end of a block, the end of the message, and the literal [DONE].
FramePayloads ==
    { [kind |-> "malformed", text |-> <<>>],
      [kind |-> "error", text |-> ProviderMessage],
      [kind |-> "text", text |-> <<"a">>],
      [kind |-> "text", text |-> <<"a", "U+00E9">>],
      [kind |-> "citation", text |-> <<>>],
      [kind |-> "block_start", text |-> <<"text">>],
      [kind |-> "block_start", text |-> <<"thinking">>],
      [kind |-> "block_stop", text |-> <<>>],
      [kind |-> "stop", text |-> <<>>],
      [kind |-> "[DONE]", text |-> <<>>] }

RECURSIVE FrameLists(_)
\* The streams of at most n frames.
FrameLists(n) ==
    IF n = 0 THEN {<<>>}
    ELSE LET shorter == FrameLists(n - 1)
         IN shorter \cup {Append(l, f) : l \in shorter, f \in FramePayloads}

Unknown == [ev |-> "Unknown", text |-> <<>>]

\* providers/anthropic.rs: pub fn parse_sse_event(data: &str): "[DONE]" is
\* Done; a payload serde_json cannot parse is Unknown; then by "type":
\* content_block_start, content_block_delta (text_delta, citations_delta),
\* content_block_stop, message_stop, and `_ => Unknown` for every other type,
\* "error" among them.
anthropic_parse_sse_event(f) ==
    CASE f.kind = "[DONE]" -> [ev |-> "Done", text |-> <<>>]
      [] f.kind = "malformed" -> Unknown
      [] f.kind = "block_start" -> [ev |-> "ContentBlockStart", text |-> f.text]
      [] f.kind = "text" -> [ev |-> "TextDelta", text |-> f.text]
      [] f.kind = "citation" -> [ev |-> "Citation", text |-> <<>>]
      [] f.kind = "block_stop" -> [ev |-> "ContentBlockStop", text |-> <<>>]
      [] f.kind = "stop" -> [ev |-> "Done", text |-> <<>>]
      [] OTHER -> Unknown

\* providers/openai.rs: pub fn parse_sse_event(data: &str): "[DONE]" is Done;
\* a payload serde_json cannot parse is Unknown; then by "type":
\* response.output_text.delta, response.completed, "error" (with
\* error.message), and `_ => Unknown`.
openai_parse_sse_event(f) ==
    CASE f.kind = "[DONE]" -> [ev |-> "Done", text |-> <<>>]
      [] f.kind = "malformed" -> Unknown
      [] f.kind = "text" -> [ev |-> "TextDelta", text |-> f.text]
      [] f.kind = "stop" -> [ev |-> "Done", text |-> <<>>]
      [] f.kind = "error" -> [ev |-> "Error", text |-> f.text]
      [] OTHER -> Unknown

\* providers/gemini.rs: pub fn parse_sse_event(data: &str): a payload
\* serde_json cannot parse (the literal [DONE] too) is Unknown; an "error" key
\* is Error with its message; a text part is TextDelta; usageMetadata without
\* parts is ResponseComplete; everything else is Unknown.
gemini_parse_sse_event(f) ==
    CASE f.kind \in {"malformed", "[DONE]"} -> Unknown
      [] f.kind = "error" -> [ev |-> "Error", text |-> f.text]
      [] f.kind = "text" -> [ev |-> "TextDelta", text |-> f.text]
      [] f.kind = "stop" -> [ev |-> "Done", text |-> <<>>]
      [] OTHER -> Unknown

\* A parser for which a payload that is not JSON is an error of the stream.
parse_sse_event_ParseFailureIsError(p, f) ==
    CASE f.kind = "malformed" -> [ev |-> "Error", text |-> <<"p", "a", "r", "s", "e">>]
      [] p = "anthropic" -> anthropic_parse_sse_event(f)
      [] p = "openai" -> openai_parse_sse_event(f)
      [] p = "google" -> gemini_parse_sse_event(f)

\* The parser the loop of provider p calls.
parse_sse_event(p, f) ==
    CASE p = "anthropic" -> anthropic_parse_sse_event(f)
      [] p = "openai" -> openai_parse_sse_event(f)
      [] p = "google" -> gemini_parse_sse_event(f)

\* full_response.len(): the length of a String is its number of bytes.
len(s) == Len(Utf8(s))

\* The state a turn starts with: let mut full_response = String::new(); ...
AccNew ==
    [full_response |-> <<>>, accumulated_text |-> <<>>,
     current_block_type |-> <<>>, previous_block_type |-> <<>>]

\* What handling one event yields: the state, the events emitted and how the
\* turn goes on.
Handled(a, out, res) == [acc |-> a, out |-> out, result |-> res]
Delta(t) == [name |-> "chat-stream-delta", text |-> t, char_offset |-> -1]
CitationDelta(offset) == [name |-> "chat-stream-delta", text |-> <<>>, char_offset |-> offset]
DoneEvent == [name |-> "chat-stream-done", text |-> <<>>, char_offset |-> -1]
Running == [kind |-> "running", message |-> <<>>]
Finished == [kind |-> "done", message |-> <<>>]
Err(message) == [kind |-> "error", message |-> message]

\* A citation placed at the number of characters of the response.
OnCitation_CountsChars(a) ==
    Handled(a, <<CitationDelta(Len(a.full_response))>>, Running)

\* llm_anthropic.rs: if let Some(c) = citation { ... char_offset:
\* full_response.len() ... emit("chat-stream-delta") }
OnCitation(a) ==
    Handled(a, <<CitationDelta(len(a.full_response))>>, Running)

\* The arms of `match anthropic_parse_sse_event(data)`.
HandleAnthropic(a, e) ==
    CASE e.ev = "Done" -> Handled(a, <<DoneEvent>>, Finished)
      [] e.ev = "ContentBlockStart" ->
            LET started == [a EXCEPT !.current_block_type = e.text]
            IN IF e.text = <<"text">> /\ a.previous_block_type = <<"thinking">>
               THEN Handled([started EXCEPT !.full_response = @ \o ParagraphBreak],
                            <<Delta(ParagraphBreak)>>, Running)
               ELSE Handled(started, <<>>, Running)
      [] e.ev = "TextDelta" ->
            Handled([a EXCEPT !.full_response = @ \o e.text], <<Delta(e.text)>>, Running)
      [] e.ev = "Citation" -> OnCitation(a)
      [] e.ev = "ContentBlockStop" ->
            Handled([a EXCEPT !.previous_block_type = a.current_block_type,
                              !.current_block_type = <<>>], <<>>, Running)
      [] OTHER -> Handled(a, <<>>, Running)

\* The arms of `match parsed_event` in send_chat_message_openai.
HandleOpenAI(a, e) ==
    CASE e.ev = "Done" -> Handled(a, <<DoneEvent>>, Finished)
      [] e.ev = "TextDelta" ->
            Handled([a EXCEPT !.full_response = @ \o e.text], <<Delta(e.text)>>, Running)
      [] e.ev = "Error" -> Handled(a, <<>>, Err(e.text))
      [] OTHER -> Handled(a, <<>>, Running)

\* A Gemini arm that keeps the whole value of the frame as response text.
HandleGemini_PushesCumulative(a, e) ==
    CASE e.ev = "Done" -> Handled(a, <<DoneEvent>>, Finished)
      [] e.ev = "TextDelta" ->
            LET d == new_text(e.text, a.accumulated_text)
                seen == [a EXCEPT !.accumulated_text = e.text]
            IN IF d # <<>>
               THEN Handled([seen EXCEPT !.full_response = @ \o e.text], <<Delta(d)>>, Running)
               ELSE Handled(seen, <<>>, Running)
      [] e.ev = "Error" -> Handled(a, <<>>, Err(e.text))
      [] OTHER -> Handled(a, <<>>, Running)

\* The arms of `match event` in send_chat_message_gemini: a text value is
\* cumulative and only its difference is emitted.
HandleGemini(a, e) ==
    CASE e.ev = "Done" -> Handled(a, <<DoneEvent>>, Finished)
      [] e.ev = "TextDelta" ->
            LET d == new_text(e.text, a.accumulated_text)
                seen == [a EXCEPT !.accumulated_text = e.text]
            IN IF d # <<>>
               THEN Handled([seen EXCEPT !.full_response = @ \o d], <<Delta(d)>>, Running)
               ELSE Handled(seen, <<>>, Running)
      [] e.ev = "Error" -> Handled(a, <<>>, Err(e.text))
      [] OTHER -> Handled(a, <<>>, Running)

\* One "data: " line through the parser and the match of provider p.
HandleFrame(p, a, f) ==
    LET e == parse_sse_event(p, f)
    IN CASE p = "anthropic" -> HandleAnthropic(a, e)
         [] p = "openai" -> HandleOpenAI(a, e)
         [] p = "google" -> HandleGemini(a, e)

\* The events of out, each with the index i of the frame they come from.
OfFrame(out, i) == [k \in 1..Len(out) |-> [frame |-> i, event |-> out[k]]]

FrameIdle ==
    /\ provider = "none"
    /\ incoming = <<>>
    /\ frame_pos = 0
    /\ turn_acc = <<>>
    /\ outward = <<>>
    /\ outcome = <<>>

FrameInit ==
    /\ provider \in Providers
    /\ incoming \in FrameLists(MaxFrames)
    /\ frame_pos = 0
    /\ turn_acc = AccNew
    /\ outward = <<>>
    /\ outcome = Running

\* A loop that puts the events of the newest frame in front of the others.
DecodeFrame_NewestFirst ==
    /\ outcome = Running
    /\ frame_pos < Len(incoming)
    /\ LET h == HandleFrame(provider, turn_acc, incoming[frame_pos + 1])
       IN /\ turn_acc' = h.acc
          /\ outward' = OfFrame(h.out, frame_pos + 1) \o outward
          /\ outcome' = h.result
    /\ frame_pos' = frame_pos + 1
    /\ UNCHANGED <<provider, incoming>>
    /\ UNCHANGED beside_frame

\* The loop takes the next "data: " line of the stream and handles it.  A
\* `return` ends the turn: the frames behind it are never looked at.
DecodeFrame ==
    /\ outcome = Running
    /\ frame_pos < Len(incoming)
    /\ LET h == HandleFrame(provider, turn_acc, incoming[frame_pos + 1])
       IN /\ turn_acc' = h.acc
          /\ outward' = outward \o OfFrame(h.out, frame_pos + 1)
          /\ outcome' = h.result
    /\ frame_pos' = frame_pos + 1
    /\ UNCHANGED <<provider, incoming>>
    /\ UNCHANGED beside_frame

\* None => break, and after the loop: emit("chat-stream-done"); Ok(()).
StreamClosed ==
    /\ outcome = Running
    /\ frame_pos = Len(incoming)
    /\ outward' = outward \o OfFrame(<<DoneEvent>>, frame_pos + 1)
    /\ outcome' = Finished
    /\ UNCHANGED <<provider, incoming, frame_pos, turn_acc>>
    /\ UNCHANGED beside_frame

FrameNext == DecodeFrame \/ StreamClosed


(***************************************************************************)
(* Part 7: a discovery stream.                                             *)
(*                                                                         *)
(* discover_resources_anthropic / _openai / _gemini (discovery.rs) send    *)
(* the request and loop `while let Some(chunk) = stream.next().await`.  A  *)
(* chunk is a failed read, or bytes holding one frame; a text frame that   *)
(* closes an item of the "items" array is stood for by the text "}", one   *)
(* that closes none by "{" (Part 4 models the extractor itself).           *)
(***************************************************************************)

\* Chunks in one discovery stream.
MaxChunks == 3

ReadFailed == [kind |-> "read_failed", text |-> <<>>]

DiscoveryChunks ==
    { ReadFailed,
      [kind |-> "malformed", text |-> <<>>],
      [kind |-> "error", text |-> ProviderMessage],
      [kind |-> "text", text |-> <<"{">>],
      [kind |-> "text", text |-> <<"}">>],
      [kind |-> "stop", text |-> <<>>] }

RECURSIVE ChunkLists(_)
\* The streams of at most n chunks.
ChunkLists(n) ==
    IF n = 0 THEN {<<>>}
    ELSE LET shorter == ChunkLists(n - 1)
         IN shorter \cup {Append(l, c) : l \in shorter, c \in DiscoveryChunks}

\* for item in extract_items_from_buffer(..) { emit("discovery-item") }
ItemEvents(text) == IF text = <<"}">> THEN <<"discovery-item">> ELSE <<>>

DiscoveryIdle ==
    /\ d_provider = "none"
    /\ d_chunks = <<>>
    /\ d_pos = 0
    /\ d_text = <<>>
    /\ d_emitted = <<>>
    /\ d_ret = "idle"

DiscoveryInit ==
    /\ d_provider \in Providers
    /\ d_chunks \in ChunkLists(MaxChunks)
    /\ d_pos = 0
    /\ d_text = <<>>
    /\ d_emitted = <<>>
    /\ d_ret = "starting"

\* client.send_streaming_request(..).await.map_err(|e| { emit(
\* "discovery-error"); e })?  with an Err: the command returns it.
DiscoveryRequestFails ==
    /\ d_ret = "starting"
    /\ d_emitted' = Append(d_emitted, "discovery-error")
    /\ d_ret' = "Err"
    /\ UNCHANGED <<d_provider, d_chunks, d_pos, d_text>>
    /\ UNCHANGED beside_discovery

\* The request succeeds: let mut stream = response.bytes_stream();
DiscoveryRequestSent ==
    /\ d_ret = "starting"
    /\ d_ret' = "streaming"
    /\ UNCHANGED <<d_provider, d_chunks, d_pos, d_text, d_emitted>>
    /\ UNCHANGED beside_discovery

\* Err(e) => { emit("discovery-error"); break; } and, behind the loop,
\* emit("discovery-done"); Ok(())
DiscoveryChunkErr ==
    /\ d_ret = "streaming"
    /\ d_pos < Len(d_chunks)
    /\ d_chunks[d_pos + 1] = ReadFailed
    /\ d_emitted' = d_emitted \o <<"discovery-error", "discovery-done">>
    /\ d_ret' = "Ok"
    /\ d_pos' = d_pos + 1
    /\ UNCHANGED <<d_provider, d_chunks, d_text>>
    /\ UNCHANGED beside_discovery

\* Ok(c) => the frame of the chunk goes through the provider's
\* parse_sse_event and the match of the loop: Done / MessageStop /
\* ResponseCompleted / ResponseComplete emit discovery-done and return Ok;
\* a text delta emits its items; Error (OpenAI, Gemini) emits
\* discovery-error and returns Err; `_ => {}`.
DiscoveryChunkFrame ==
    /\ d_ret = "streaming"
    /\ d_pos < Len(d_chunks)
    /\ d_chunks[d_pos + 1] # ReadFailed
    /\ LET e == parse_sse_event(d_provider, d_chunks[d_pos + 1])
           delta == IF d_provider = "google" THEN new_text(e.text, d_text) ELSE e.text
       IN CASE e.ev = "Done" ->
                 /\ d_emitted' = Append(d_emitted, "discovery-done")
                 /\ d_ret' = "Ok"
                 /\ d_text' = d_text
            [] e.ev = "TextDelta" ->
                 /\ d_emitted' = d_emitted \o ItemEvents(delta)
                 /\ d_ret' = d_ret
                 /\ d_text' = IF d_provider = "google" THEN e.text ELSE d_text
            [] e.ev = "Error" ->
                 /\ d_emitted' = Append(d_emitted, "discovery-error")
                 /\ d_ret' = "Err"
                 /\ d_text' = d_text
            [] OTHER -> UNCHANGED <<d_emitted, d_ret, d_text>>
    /\ d_pos' = d_pos + 1
    /\ UNCHANGED <<d_provider, d_chunks>>
    /\ UNCHANGED beside_discovery

\* stream.next() is None: the loop ends; emit("discovery-done"); Ok(())
DiscoveryStreamEnd ==
    /\ d_ret = "streaming"
    /\ d_pos = Len(d_chunks)
    /\ d_emitted' = Append(d_emitted, "discovery-done")
    /\ d_ret' = "Ok"
    /\ UNCHANGED <<d_provider, d_chunks, d_pos, d_text>>
    /\ UNCHANGED beside_discovery

DiscoveryNext ==
    \/ DiscoveryRequestFails
    \/ DiscoveryRequestSent
    \/ DiscoveryChunkErr
    \/ DiscoveryChunkFrame
    \/ DiscoveryStreamEnd


(***************************************************************************)
(* Part 8: a voice turn.                                                   *)
(*                                                                         *)
(* send_voice_message_impl (llm_voice.rs) reads a Gemini stream whose text *)
(* frames are cumulative, withholds the text up to the transcription block *)
(* and emits the transcription once.  The tags [TRANSCRIPTION] and         *)
(* [/TRANSCRIPTION] are shortened to [T] and [/T]; a frame may end inside  *)
(* a tag.  The space is the white space of a response.                     *)
(***************************************************************************)

\* Pieces (a tag, a space, a letter) in one response.
MaxPieces == 4

start_tag == <<"[", "T", "]">>
end_tag == <<"[", "/", "T", "]">>
Pieces == {start_tag, end_tag, <<" ">>, <<"h">>}

RECURSIVE Responses(_)
\* The responses of at most n pieces.
Responses(n) ==
    IF n = 0 THEN {<<>>}
    ELSE LET shorter == Responses(n - 1)
         IN shorter \cup {r \o p : r \in shorter, p \in Pieces}

None == [some |-> FALSE, value |-> <<>>]
Some(v) == [some |-> TRUE, value |-> v]

\* fn extract_transcription(text: &str) -> Option<String>: the first start
\* tag and the first end tag; Some(trimmed text between them) when the end
\* tag begins behind the beginning of the start tag.
extract_transcription(text) ==
    LET start_idx == Find(text, start_tag)
        end_idx == Find(text, end_tag)
    IN IF start_idx = 0 \/ end_idx = 0 THEN None
       ELSE IF end_idx > start_idx
            THEN Some(trim(SubSeq(text, start_idx + Len(start_tag), end_idx - 1)))
            ELSE None

\* An event of the voice turn, with the span of the response its frame added.
VoiceEvent(name, text, from, to) == [name |-> name, text |-> text, from |-> from, to |-> to]

VoiceIdle ==
    /\ v_response = <<>>
    /\ v_pos = 0
    /\ v_accumulated_text = <<>>
    /\ v_full_response = <<>>
    /\ transcription_emitted = FALSE
    /\ v_emitted = <<>>

VoiceInit ==
    /\ v_response \in Responses(MaxPieces)
    /\ v_pos = 0
    /\ v_accumulated_text = <<>>
    /\ v_full_response = <<>>
    /\ transcription_emitted = FALSE
    /\ v_emitted = <<>>

\* A voice turn that never sets transcription_emitted.
VoiceTextDelta_NoFlag(n) ==
    /\ v_pos + n <= Len(v_response)
    /\ LET t == SubSeq(v_response, 1, v_pos + n)
           new == new_text(t, v_accumulated_text)
           full == v_full_response \o new
           found == extract_transcription(full)
           end_idx == Find(full, end_tag)
           clean_start == trim_start(SubSeq(full, end_idx + Len(end_tag), Len(full)))
       IN /\ v_accumulated_text' = t
          /\ v_full_response' = full
          /\ transcription_emitted' = FALSE
          /\ v_emitted' =
                IF found.some
                THEN v_emitted
                     \o <<VoiceEvent("voice-transcription", found.value, v_pos, v_pos + n)>>
                     \o (IF clean_start # <<>>
                         THEN <<VoiceEvent("chat-stream-delta", clean_start, v_pos, v_pos + n)>>
                         ELSE <<>>)
                ELSE v_emitted
    /\ v_pos' = v_pos + n
    /\ UNCHANGED v_response
    /\ UNCHANGED beside_voice

\* GeminiStreamEvent::TextDelta { text: t } => the frame carries the first
\* v_pos + n characters of the response.  The difference to accumulated_text
\* is pushed on full_response; until the transcription has been emitted the
\* turn looks for it and, on finding it, emits it and the trimmed text behind
\* the end tag, if any; afterwards every difference is emitted as a delta.
\* A loop that passes every difference on, transcription block or not.
VoiceTextDelta_StreamsAll(n) ==
    /\ v_pos + n <= Len(v_response)
    /\ LET t == SubSeq(v_response, 1, v_pos + n)
           new == new_text(t, v_accumulated_text)
           full == v_full_response \o new
           found == extract_transcription(full)
       IN /\ v_accumulated_text' = t
          /\ v_full_response' = full
          /\ transcription_emitted' = (transcription_emitted \/ found.some)
          /\ v_emitted' =
                (IF ~ transcription_emitted /\ found.some
                 THEN Append(v_emitted, VoiceEvent("voice-transcription", found.value, v_pos, v_pos + n))
                 ELSE v_emitted)
                \o <<VoiceEvent("chat-stream-delta", new, v_pos, v_pos + n)>>
    /\ v_pos' = v_pos + n
    /\ UNCHANGED v_response
    /\ UNCHANGED beside_voice

VoiceTextDelta(n) ==
    /\ v_pos + n <= Len(v_response)
    /\ LET t == SubSeq(v_response, 1, v_pos + n)
           new == new_text(t, v_accumulated_text)
           full == v_full_response \o new
           found == extract_transcription(full)
           end_idx == Find(full, end_tag)
           clean_start == trim_start(SubSeq(full, end_idx + Len(end_tag), Len(full)))
       IN /\ v_accumulated_text' = t
          /\ v_full_response' = full
          /\ IF ~ transcription_emitted /\ found.some
             THEN /\ transcription_emitted' = TRUE
                  /\ v_emitted' =
                        v_emitted
                        \o <<VoiceEvent("voice-transcription", found.value, v_pos, v_pos + n)>>
                        \o (IF clean_start # <<>>
                            THEN <<VoiceEvent("chat-stream-delta", clean_start, v_pos, v_pos + n)>>
                            ELSE <<>>)
             ELSE /\ transcription_emitted' = transcription_emitted
                  /\ v_emitted' =
                        IF transcription_emitted
                        THEN Append(v_emitted, VoiceEvent("chat-stream-delta", new, v_pos, v_pos + n))
                        ELSE v_emitted
    /\ v_pos' = v_pos + n
    /\ UNCHANGED v_response
    /\ UNCHANGED beside_voice

VoiceNext == \E n \in 1..(MaxPieces * Len(end_tag)) : VoiceTextDelta(n)


(***************************************************************************)
(* Part 9: the offset of a Gemini grounding support.                       *)
(*                                                                         *)
(* extract_inline_citations_from_grounding (providers/gemini.rs) converts  *)
(* segment.end_index, a byte offset the provider sends (a u64), into a     *)
(* character offset of the accumulated response text.                      *)
(***************************************************************************)

\* Longest response text, in characters.
MaxOffsetText == 3

OffsetChars == {"a", "U+00E9"}

RECURSIVE OffsetTexts(_)
OffsetTexts(n) ==
    IF n = 0 THEN {<<>>}
    ELSE LET shorter == OffsetTexts(n - 1)
         IN shorter \cup {Append(s, c) : s \in shorter, c \in OffsetChars}

\* str::is_char_boundary: the byte offsets at which a character of s begins,
\* and the end of s.
is_char_boundary(s, index) == \E k \in 0..Len(s) : len(SubSeq(s, 1, k)) = index

\* The characters of s that lie wholly before byte offset index.
CharsBefore(s, index) == Cardinality({k \in 1..Len(s) : len(SubSeq(s, 1, k)) <= index})

Min(a, b) == IF a <= b THEN a ELSE b

ConversionOk(n) == [panicked |-> FALSE, value |-> n]
ConversionPanic == [panicked |-> TRUE, value |-> 0]

\* fn byte_offset_to_char_offset(text: &str, byte_offset: usize) -> usize {
\*     let byte_offset = byte_offset.min(text.len());
\*     text[..byte_offset].chars().count() }
\* Slicing a str at an offset that is not a character boundary panics.
byte_offset_to_char_offset(s, byte_offset) ==
    LET clamped == Min(byte_offset, len(s))
    IN IF is_char_boundary(s, clamped) THEN ConversionOk(CharsBefore(s, clamped))
       ELSE ConversionPanic

OffsetIdle ==
    /\ g_text = <<>>
    /\ g_end_index = 0
    /\ g_offset = <<>>

OffsetInit ==
    /\ g_text \in OffsetTexts(MaxOffsetText)
    /\ g_end_index \in 0..(2 * MaxOffsetText + 2)
    /\ g_offset = [done |-> FALSE, panicked |-> FALSE, value |-> 0]

\* let char_offset = byte_offset_to_char_offset(response_text,
\*                                              support.segment.end_index);
ConvertOffset ==
    /\ ~ g_offset.done
    /\ LET r == byte_offset_to_char_offset(g_text, g_end_index)
       IN g_offset' = [done |-> TRUE, panicked |-> r.panicked, value |-> r.value]
    /\ UNCHANGED <<g_text, g_end_index>>
    /\ UNCHANGED beside_offset

OffsetNext == ConvertOffset


(***************************************************************************)
(* Part 10: the lock of the token slot and the start of a turn.            *)
(*                                                                         *)
(* StreamState.cancel_token is an Arc<Mutex<Option<CancellationToken>>>    *)
(* (tokio's Mutex).  send_chat_message locks it in a block of its own to   *)
(* install its token; cancel_chat_stream locks it to take and fire the     *)
(* token.  A call is a task; between two of its await points it runs       *)
(* without being suspended.  The await points of a chat turn are: lock(),  *)
(* get_api_key_async, the streaming request, the select over the token and *)
(* the next chunk, and (Anthropic) fetch_file_metadata.                    *)
(***************************************************************************)

\* Command calls in flight.
MaxCalls == 2

Calls == 1..MaxCalls
KeyStores == {{}, {"anthropic"}, {"openai", "google"}, Providers}

\* The places at which a task can be suspended.
AwaitPoints == {"lock", "api_key", "connect", "select", "file_fetch"}

KeyNotFound == "API key not found"

StartIdle ==
    /\ keys = {}
    /\ call_kind = <<>>
    /\ call_pc = <<>>
    /\ lock_holder = 0
    /\ slot = 0
    /\ fired = {}
    /\ requests = {}
    /\ call_events = <<>>
    /\ call_ret = <<>>

StartInit ==
    /\ keys \in KeyStores
    /\ call_kind = [c \in Calls |-> "none"]
    /\ call_pc = [c \in Calls |-> "idle"]
    /\ lock_holder = 0
    /\ slot = 0
    /\ fired = {}
    /\ requests = {}
    /\ call_events = [c \in Calls |-> <<>>]
    /\ call_ret = [c \in Calls |-> "none"]

\* The front end invokes send_chat_message (with a model of provider kind) or
\* cancel_chat_stream: the task runs up to state.cancel_token.lock().await.
Invoke(c, kind) ==
    /\ call_pc[c] = "idle"
    /\ call_kind' = [call_kind EXCEPT ![c] = kind]
    /\ call_pc' = [call_pc EXCEPT ![c] = "lock"]
    /\ UNCHANGED <<keys, lock_holder, slot, fired, requests, call_events, call_ret>>
    /\ UNCHANGED beside_start

\* lock().await completes: the mutex is free and the task gets the guard.
AcquireLock(c) ==
    /\ call_pc[c] = "lock"
    /\ lock_holder = 0
    /\ lock_holder' = c
    /\ call_pc' = [call_pc EXCEPT ![c] = "holding"]
    /\ UNCHANGED <<keys, call_kind, slot, fired, requests, call_events, call_ret>>
    /\ UNCHANGED beside_start

\* An install whose guard lives until the end of the function: the task goes
\* on to get_api_key_async with the mutex held.
InstallAndUnlock_GuardKept(c) ==
    /\ call_pc[c] = "holding"
    /\ call_kind[c] \in Providers
    /\ lock_holder = c
    /\ slot' = c
    /\ call_pc' = [call_pc EXCEPT ![c] = "api_key"]
    /\ UNCHANGED <<keys, call_kind, lock_holder, fired, requests, call_events, call_ret>>
    /\ UNCHANGED beside_start

\* { let mut token_guard = ..; *token_guard = Some(cancel_token.clone()); }
\* The guard is dropped at the end of the block; the task goes on to
\* get_provider_for_model and get_api_key_async(..).await.
InstallAndUnlock(c) ==
    /\ call_pc[c] = "holding"
    /\ call_kind[c] \in Providers
    /\ lock_holder = c
    /\ slot' = c
    /\ lock_holder' = 0
    /\ call_pc' = [call_pc EXCEPT ![c] = "api_key"]
    /\ UNCHANGED <<keys, call_kind, fired, requests, call_events, call_ret>>
    /\ UNCHANGED beside_start

\* if let Some(token) = token_guard.take() { token.cancel(); }  Ok(())
\* The guard is dropped when the function returns.
TakeFireAndUnlock(c) ==
    /\ call_pc[c] = "holding"
    /\ call_kind[c] = "cancel"
    /\ lock_holder = c
    /\ slot' = 0
    /\ fired' = IF slot # 0 THEN fired \cup {slot} ELSE fired
    /\ lock_holder' = 0
    /\ call_pc' = [call_pc EXCEPT ![c] = "returned"]
    /\ call_ret' = [call_ret EXCEPT ![c] = "Ok"]
    /\ UNCHANGED <<keys, call_kind, requests, call_events>>
    /\ UNCHANGED beside_start

\* A turn that goes on to the request with an empty key when none is stored.
GetApiKeyAsync_EmptyKey(c) ==
    /\ call_pc[c] = "api_key"
    /\ call_pc' = [call_pc EXCEPT ![c] = "connect"]
    /\ UNCHANGED <<keys, call_kind, lock_holder, slot, fired, requests, call_events, call_ret>>
    /\ UNCHANGED beside_start

\* let api_key = get_api_key_async(app, "anthropic").await?;
\* get_api_key_secure: keys.get(&key_name).cloned().ok_or_else(|| format!(
\* "{} API key not found", provider)).  The `?` returns the error.
GetApiKeyAsync(c) ==
    /\ call_pc[c] = "api_key"
    /\ IF call_kind[c] \in keys
       THEN /\ call_pc' = [call_pc EXCEPT ![c] = "connect"]
            /\ UNCHANGED call_ret
       ELSE /\ call_pc' = [call_pc EXCEPT ![c] = "returned"]
            /\ call_ret' = [call_ret EXCEPT ![c] = KeyNotFound]
    /\ UNCHANGED <<keys, call_kind, lock_holder, slot, fired, requests, call_events>>
    /\ UNCHANGED beside_start

\* client.send_streaming_request(..).await: the request goes out on the
\* network; it yields the response stream or an error, which `?` returns.
SendRequest(c) ==
    /\ call_pc[c] = "connect"
    /\ requests' = requests \cup {c}
    /\ \/ /\ call_pc' = [call_pc EXCEPT ![c] = "select"]
          /\ UNCHANGED call_ret
       \/ /\ call_pc' = [call_pc EXCEPT ![c] = "returned"]
          /\ call_ret' = [call_ret EXCEPT ![c] = "request failed"]
    /\ UNCHANGED <<keys, call_kind, lock_holder, slot, fired, call_events>>
    /\ UNCHANGED beside_start

\* The first branch of tokio::select!: _ = cancel_token.cancelled() => { emit
\* chat-stream-cancelled; return Ok(()) }.  It is ready once the turn's token
\* is fired.
StartSelectCancelled(c) ==
    /\ call_pc[c] = "select"
    /\ c \in fired
    /\ call_events' = [call_events EXCEPT ![c] = Append(@, "chat-stream-cancelled")]
    /\ call_pc' = [call_pc EXCEPT ![c] = "returned"]
    /\ call_ret' = [call_ret EXCEPT ![c] = "Ok"]
    /\ UNCHANGED <<keys, call_kind, lock_holder, slot, fired, requests>>
    /\ UNCHANGED beside_start

\* The second branch: chunk = stream.next() => ..  The provider delivers a
\* chunk whose frames emit a delta, need a file's metadata (Anthropic: the
\* fetch is awaited inside this branch), or end the turn.
StartSelectChunk(c) ==
    /\ call_pc[c] = "select"
    /\ \/ /\ call_events[c] = <<>>
          /\ call_events' = [call_events EXCEPT ![c] = Append(@, "chat-stream-delta")]
          /\ UNCHANGED <<call_pc, call_ret>>
       \/ /\ call_kind[c] = "anthropic"
          /\ call_events[c] = <<>>
          /\ call_pc' = [call_pc EXCEPT ![c] = "file_fetch"]
          /\ UNCHANGED <<call_events, call_ret>>
       \/ /\ call_events' = [call_events EXCEPT ![c] = Append(@, "chat-stream-done")]
          /\ call_pc' = [call_pc EXCEPT ![c] = "returned"]
          /\ call_ret' = [call_ret EXCEPT ![c] = "Ok"]
    /\ UNCHANGED <<keys, call_kind, lock_holder, slot, fired, requests>>
    /\ UNCHANGED beside_start

\* tokio::select! { _ = cancel_token.cancelled() => .., chunk = stream.next()
\* => .. }: one iteration of the loop takes the branch that is ready.
SelectStep(c) == StartSelectCancelled(c) \/ StartSelectChunk(c)

\* fetch_file_metadata(&api_key, &f.file_id).await returns; the execution
\* delta is emitted and the loop goes on.
FileFetched(c) ==
    /\ call_pc[c] = "file_fetch"
    /\ call_events' = [call_events EXCEPT ![c] = Append(@, "chat-stream-delta (execution)")]
    /\ call_pc' = [call_pc EXCEPT ![c] = "select"]
    /\ UNCHANGED <<keys, call_kind, lock_holder, slot, fired, requests, call_ret>>
    /\ UNCHANGED beside_start

StartNext ==
    \/ \E c \in Calls, kind \in Providers \cup {"cancel"} : Invoke(c, kind)
    \/ \E c \in Calls : AcquireLock(c)
    \/ \E c \in Calls : InstallAndUnlock(c)
    \/ \E c \in Calls : TakeFireAndUnlock(c)
    \/ \E c \in Calls : GetApiKeyAsync(c)
    \/ \E c \in Calls : SendRequest(c)
    \/ \E c \in Calls : SelectStep(c)
    \/ \E c \in Calls : FileFetched(c)


(***************************************************************************)
(* Part 11: the extractor on documents of other shapes.                    *)
(*                                                                         *)
(* The same extractor and the same deltas as in Part 4, on documents whose *)
(* array holds strings with structural characters, whose first array may   *)
(* belong to another key than "items", and which may go on after the       *)
(* array's closing bracket with a second "items" array.                    *)
(***************************************************************************)

\* Number of elements in the first array of a document.
MaxElements == 2
\* Length of a short delta.
MaxDelta == 2

\* The elements the array can hold: a DiscoveryItem; {"a":1}; an item with a
\* string holding an escaped quote, a closing bracket and a closing brace;
\* an item with a string holding an opening bracket and an opening brace; an
\* item with a string that ends in an escaped backslash; a string element
\* holding a closing bracket and a closing brace.
ElementTexts ==
    { <<"{", "F", "}">>,
      <<"{", "a", "}">>,
      <<"{", "F", ",", "Q", "BS", "Q", "]", "}", "Q", "}">>,
      <<"{", "F", ",", "Q", "[", "{", "Q", "}">>,
      <<"{", "F", ",", "Q", "BS", "BS", "Q", "}">>,
      <<"Q", "]", "}", "Q">> }

\* What precedes the first array: {"items":[   {"items": [   {"items":1,"b":[
ArrayPrefixes ==
    { <<"{", "Q", "i", "t", "e", "m", "s", "Q", ":", "[">>,
      <<"{", "Q", "i", "t", "e", "m", "s", "Q", ":", " ", "[">>,
      <<"{", "Q", "i", "t", "e", "m", "s", "Q", ":", "a", ",", "Q", "b", "Q", ":", "[">> }

\* What follows the first array's elements: ]}   ],"items":[{F}]}
ArraySuffixes ==
    { <<"]", "}">>,
      <<"]", ",", "Q", "i", "t", "e", "m", "s", "Q", ":", "[", "{", "F", "}", "]", "}">> }

RECURSIVE ElementLists(_)
\* The lists of at most n elements.
ElementLists(n) ==
    IF n = 0 THEN {<<>>}
    ELSE LET shorter == ElementLists(n - 1)
         IN shorter \cup {Append(l, o) : l \in shorter, o \in ElementTexts}

\* A document of one of these shapes is about to be streamed, one character
\* per delta, or in deltas of at most MaxDelta characters and deltas that
\* hold all the rest of the document.
JsonDocsInit ==
    /\ parse_state = JsonParseState_new
    /\ doc_items \in ElementLists(MaxElements)
    /\ \E prefix \in ArrayPrefixes, suffix \in ArraySuffixes :
           doc = prefix \o Join(doc_items) \o suffix
    /\ doc_pos = 0
    /\ feed \in {"chars", "chunks"}
    /\ yielded = <<>>

\* The rest of the document arrives as one text delta.
ExtractRest ==
    /\ doc_pos < Len(doc)
    /\ ExtractDelta(Len(doc) - doc_pos)

JsonDocsNext ==
    \/ \E n \in 1..MaxDelta : ExtractDelta(n)
    \/ ExtractRest

(***************************************************************************)
(* Part 12: the content blocks of an Anthropic turn.                       *)
(*                                                                         *)
(* A response is a sequence of content blocks; each arrives as a           *)
(* content_block_start frame, content_block_delta frames and a             *)
(* content_block_stop frame.  The arms ContentBlockStart,                  *)
(* ContentBlockDelta and ContentBlockStop of send_chat_message_anthropic   *)
(* keep current_block_type, previous_block_type,                           *)
(* current_execution_tool_name and pending_tool_input_json.  A fragment    *)
(* of a tool's input is a character sequence: "j1" "j2" together are the   *)
(* JSON input of a code execution, "q1" "q2" that of a web search.         *)
(***************************************************************************)

\* Number of content blocks in a response.
MaxBlocks == 3

BlockStart(block_type, tool, ok) ==
    [frame |-> "content_block_start", block_type |-> block_type, tool |-> tool,
     result_ok |-> ok, payload |-> <<>>]
BlockDelta(kind, payload) ==
    [frame |-> "content_block_delta", block_type |-> kind, tool |-> "",
     result_ok |-> TRUE, payload |-> payload]
BlockStop ==
    [frame |-> "content_block_stop", block_type |-> "", tool |-> "",
     result_ok |-> TRUE, payload |-> <<>>]

\* The blocks a response can hold, each as its frames: a text block; a
\* thinking block; a redacted_thinking block; a web search (server_tool_use
\* with its query in two fragments) and its result; a bash code execution
\* with its input in two fragments, with half of it, or with none; the
\* result of a code execution, whose content parse_code_execution_result
\* accepts or not.
BlockTexts ==
    { << BlockStart("text", "", TRUE), BlockDelta("text_delta", <<"t">>), BlockStop >>,
      << BlockStart("thinking", "", TRUE), BlockDelta("thinking_delta", <<"h">>), BlockStop >>,
      << BlockStart("redacted_thinking", "", TRUE), BlockStop >>,
      << BlockStart("server_tool_use", "web_search", TRUE),
         BlockDelta("input_json_delta", <<"q1">>), BlockDelta("input_json_delta", <<"q2">>),
         BlockStop >>,
      << BlockStart("web_search_tool_result", "", TRUE), BlockStop >>,
      << BlockStart("server_tool_use", "bash_code_execution", TRUE),
         BlockDelta("input_json_delta", <<"j1">>), BlockDelta("input_json_delta", <<"j2">>),
         BlockStop >>,
      << BlockStart("server_tool_use", "bash_code_execution", TRUE),
         BlockDelta("input_json_delta", <<"j1">>), BlockStop >>,
      << BlockStart("server_tool_use", "bash_code_execution", TRUE), BlockStop >>,
      << BlockStart("bash_code_execution_tool_result", "", TRUE), BlockStop >>,
      << BlockStart("bash_code_execution_tool_result", "", FALSE), BlockStop >> }

RECURSIVE BlockLists(_)
\* The lists of at most n blocks.
BlockLists(n) ==
    IF n = 0 THEN {<<>>}
    ELSE LET shorter == BlockLists(n - 1)
         IN shorter \cup {Append(l, b) : l \in shorter, b \in BlockTexts}

\* The result block that answers a server_tool_use block, "" for the start
\* of a block that is no tool use.
ResultTypeOf(f) ==
    CASE f.block_type = "server_tool_use" /\ f.tool = "web_search" -> "web_search_tool_result"
      [] f.block_type = "server_tool_use" /\ f.tool = "bash_code_execution" ->
            "bash_code_execution_tool_result"
      [] OTHER -> ""

\* The provider answers a server tool use with its result block, next in
\* the response, and sends no result block otherwise.
InProtocol(l) ==
    /\ \A k \in 1..(Len(l) - 1) :
           ResultTypeOf(l[k][1]) # "" => l[k + 1][1].block_type = ResultTypeOf(l[k][1])
    /\ \A k \in 1..Len(l) :
           l[k][1].block_type \in {"web_search_tool_result", "bash_code_execution_tool_result"}
               => (k > 1 /\ ResultTypeOf(l[k - 1][1]) = l[k][1].block_type)

RECURSIVE FramesOf(_)
\* The frames of a list of blocks.
FramesOf(l) == IF l = <<>> THEN <<>> ELSE Head(l) \o FramesOf(Tail(l))

\* is_code_execution_block(&block_type, &content_block): a server_tool_use
\* whose tool is one of the code-execution tools.
is_code_execution_block(f) ==
    /\ f.block_type = "server_tool_use"
    /\ f.tool \in {"bash_code_execution", "text_editor_code_execution"}

\* is_code_execution_result(&block_type)
is_code_execution_result(block_type) ==
    block_type \in {"bash_code_execution_tool_result", "text_editor_code_execution_tool_result"}

\* parse_code_execution_result(&block_type, &content_block): Some(result) for
\* a content it accepts, None otherwise.
parse_code_execution_result(f) ==
    IF f.result_ok THEN Some(<<"result">>) ELSE None

\* serde_json::from_str::<serde_json::Value>(&pending_tool_input_json): Ok for
\* a whole JSON value.
from_str_Value(s) ==
    IF s \in {<<"j1", "j2">>, <<"q1", "q2">>} THEN Some(s) ELSE None

\* input_obj["command"].as_str(): the input of a code execution has a
\* command, the query of a web search has none.
CommandOf(input_obj) ==
    IF input_obj = <<"j1", "j2">> THEN Some(<<"cmd">>) ELSE None

\* The locals before the loop.
BlockAccNew ==
    [current_block_type |-> None, previous_block_type |-> None,
     current_execution_tool_name |-> None, pending_tool_input_json |-> <<>>,
     full_response |-> <<>>]

TextBlockDelta(t) == [kind |-> "text", text |-> t, tool_name |-> "", code |-> None]
ThinkingBlockDelta(t) == [kind |-> "thinking", text |-> t, tool_name |-> "", code |-> None]
ExecutionStarted(tool_name, code) ==
    [kind |-> "execution started", text |-> <<>>, tool_name |-> tool_name, code |-> code]
ExecutionResult(tool_name) ==
    [kind |-> "execution result", text |-> <<>>, tool_name |-> tool_name, code |-> None]

\* matches!(prev.as_str(), "thinking" | "server_tool_use" | "web_search_tool_result"
\*     | "bash_code_execution_tool_result" | "text_editor_code_execution_tool_result")
BreakAfter ==
    {"thinking", "server_tool_use", "web_search_tool_result",
     "bash_code_execution_tool_result", "text_editor_code_execution_tool_result"}

\* A start of a text block that breaks the paragraph after any block.
OnContentBlockStart_BreakAfterAny(a, f) ==
    LET started == [a EXCEPT !.current_block_type = Some(f.block_type)]
    IN IF f.block_type = "text" /\ a.previous_block_type.some
       THEN [acc |-> [started EXCEPT !.full_response = @ \o ParagraphBreak],
             out |-> <<TextBlockDelta(ParagraphBreak)>>]
       ELSE [acc |-> started, out |-> <<>>]

\* AnthropicStreamEvent::ContentBlockStart { block_type, content_block }
OnContentBlockStart(a, f) ==
    LET started == [a EXCEPT !.current_block_type = Some(f.block_type)]
    IN IF is_code_execution_block(f)
       THEN [acc |-> [started EXCEPT !.current_execution_tool_name = Some(f.tool),
                                     !.pending_tool_input_json = <<>>],
             out |-> <<>>]
       ELSE IF is_code_execution_result(f.block_type)
       THEN IF parse_code_execution_result(f).some
            THEN [acc |-> [started EXCEPT !.current_execution_tool_name = None],
                  out |-> <<ExecutionResult(
                              IF a.current_execution_tool_name.some
                              THEN a.current_execution_tool_name.value
                              ELSE "result.tool_name")>>]
            ELSE [acc |-> started, out |-> <<>>]
       ELSE IF /\ f.block_type = "text"
               /\ a.previous_block_type.some
               /\ a.previous_block_type.value \in BreakAfter
       THEN [acc |-> [started EXCEPT !.full_response = @ \o ParagraphBreak],
             out |-> <<TextBlockDelta(ParagraphBreak)>>]
       ELSE [acc |-> started, out |-> <<>>]

\* AnthropicStreamEvent::ContentBlockDelta { text, thinking, citation, input_json }
OnContentBlockDelta(a, f) ==
    CASE f.block_type = "text_delta" ->
            [acc |-> [a EXCEPT !.full_response = @ \o f.payload],
             out |-> <<TextBlockDelta(f.payload)>>]
      [] f.block_type = "thinking_delta" ->
            [acc |-> a, out |-> <<ThinkingBlockDelta(f.payload)>>]
      [] f.block_type = "input_json_delta" ->
            [acc |-> [a EXCEPT !.pending_tool_input_json = @ \o f.payload], out |-> <<>>]
      [] OTHER -> [acc |-> a, out |-> <<>>]

\* AnthropicStreamEvent::ContentBlockStop
OnContentBlockStop(a) ==
    LET parse == /\ a.current_block_type.some
                 /\ a.current_block_type.value = "server_tool_use"
                 /\ a.current_execution_tool_name.some
                 /\ a.pending_tool_input_json # <<>>
        input_obj == from_str_Value(a.pending_tool_input_json)
        stopped == [a EXCEPT !.previous_block_type = a.current_block_type,
                             !.current_block_type = None,
                             !.pending_tool_input_json = IF parse THEN <<>> ELSE @]
    IN IF parse /\ input_obj.some
       THEN [acc |-> stopped,
             out |-> <<ExecutionStarted(a.current_execution_tool_name.value,
                                        CommandOf(input_obj.value))>>]
       ELSE [acc |-> stopped, out |-> <<>>]

BlockIdle ==
    /\ block_frames = <<>>
    /\ block_pos = 0
    /\ block_acc = <<>>
    /\ block_out = <<>>

\* A response of at most MaxBlocks blocks is about to be handled.
BlockInit ==
    /\ \E l \in BlockLists(MaxBlocks) : InProtocol(l) /\ block_frames = FramesOf(l)
    /\ block_pos = 0
    /\ block_acc = BlockAccNew
    /\ block_out = <<>>

\* The deltas of out, each with the index i of the frame they come from.
AtFrame(out, i) == [k \in 1..Len(out) |-> [at |-> i, delta |-> out[k]]]

\* The turn handles the next frame: one arm of the match.
HandleBlockFrame ==
    /\ block_pos < Len(block_frames)
    /\ LET f == block_frames[block_pos + 1]
           handled == CASE f.frame = "content_block_start" -> OnContentBlockStart(block_acc, f)
                        [] f.frame = "content_block_delta" -> OnContentBlockDelta(block_acc, f)
                        [] f.frame = "content_block_stop" -> OnContentBlockStop(block_acc)
       IN /\ block_acc' = handled.acc
          /\ block_out' = block_out \o AtFrame(handled.out, block_pos + 1)
    /\ block_pos' = block_pos + 1
    /\ UNCHANGED block_frames
    /\ UNCHANGED beside_block

BlockNext == HandleBlockFrame

(***************************************************************************)
(* Part 13: an OpenAI code-interpreter call.                               *)
(*                                                                         *)
(* A call arrives as response.output_item.added (item type                 *)
(* code_interpreter_call), response.code_interpreter_call.code.delta       *)
(* frames, a response.code_interpreter_call.code.done frame and            *)
(* response.output_item.done.  send_chat_message_openai keeps the code of  *)
(* the deltas in pending_code.  Code is a sequence of characters.          *)
(***************************************************************************)

\* Number of frames in a response.
MaxInterpFrames == 5

ItemAdded == [type |-> "response.output_item.added", code |-> <<>>]
CodeDelta(c) == [type |-> "response.code_interpreter_call.code.delta", code |-> c]
CodeDone(c) == [type |-> "response.code_interpreter_call.code.done", code |-> c]
ItemDone == [type |-> "response.output_item.done", code |-> <<>>]

\* The frames of a response: the start of a call, code deltas "x" and "y",
\* a code.done with the whole code or with none, and the end of a call.
InterpFrames ==
    { ItemAdded, CodeDelta(<<"x">>), CodeDelta(<<"y">>),
      CodeDone(<<"x", "y">>), CodeDone(<<>>), ItemDone }

RECURSIVE InterpLists(_)
InterpLists(n) ==
    IF n = 0 THEN {<<>>}
    ELSE LET shorter == InterpLists(n - 1)
         IN shorter \cup {Append(l, f) : l \in shorter, f \in InterpFrames}

\* ExecutionDelta { tool_name: CODE_INTERPRETER, status: Started, code: Some(code) }
InterpStarted(code) == [status |-> "Started", code |-> Some(code)]
\* ExecutionDelta { tool_name: CODE_INTERPRETER, status: Completed | Failed, code: None }
InterpResult == [status |-> "Completed", code |-> None]

\* OpenAIStreamEvent::CodeInterpreterStarted { call_id: _ }
OnCodeInterpreterStarted(pending) == [pending |-> <<>>, out |-> <<>>]

\* A code delta that is passed on as it arrives.
OnCodeInterpreterCodeDelta_Emits(pending, code) ==
    [pending |-> pending \o code, out |-> <<InterpStarted(code)>>]

\* OpenAIStreamEvent::CodeInterpreterCodeDelta { call_id: _, code }
OnCodeInterpreterCodeDelta(pending, code) == [pending |-> pending \o code, out |-> <<>>]

\* OpenAIStreamEvent::CodeInterpreterCodeDone { call_id: _, code }
OnCodeInterpreterCodeDone(pending, code) ==
    LET final_code == IF code = <<>> THEN pending ELSE code
    IN [pending |-> pending, out |-> <<InterpStarted(final_code)>>]

\* OpenAIStreamEvent::CodeInterpreterResult { .. } (a result without files)
OnCodeInterpreterResult(pending) == [pending |-> pending, out |-> <<InterpResult>>]

InterpIdle ==
    /\ ci_frames = <<>>
    /\ ci_pos = 0
    /\ pending_code = <<>>
    /\ ci_out = <<>>

InterpInit ==
    /\ ci_frames \in InterpLists(MaxInterpFrames)
    /\ ci_pos = 0
    /\ pending_code = <<>>
    /\ ci_out = <<>>

\* The turn handles the next frame: one arm of `match parsed_event`.
HandleInterpFrame ==
    /\ ci_pos < Len(ci_frames)
    /\ LET f == ci_frames[ci_pos + 1]
           handled ==
               CASE f.type = "response.output_item.added" -> OnCodeInterpreterStarted(pending_code)
                 [] f.type = "response.code_interpreter_call.code.delta" ->
                        OnCodeInterpreterCodeDelta(pending_code, f.code)
                 [] f.type = "response.code_interpreter_call.code.done" ->
                        OnCodeInterpreterCodeDone(pending_code, f.code)
                 [] f.type = "response.output_item.done" -> OnCodeInterpreterResult(pending_code)
       IN /\ pending_code' = handled.pending
          /\ ci_out' = ci_out \o [k \in 1..Len(handled.out) |->
                                     [at |-> ci_pos + 1, delta |-> handled.out[k]]]
    /\ ci_pos' = ci_pos + 1
    /\ UNCHANGED ci_frames
    /\ UNCHANGED beside_interp

InterpNext == HandleInterpFrame

(***************************************************************************)
(* Part 14: one Gemini frame through parse_sse_event.                      *)
(*                                                                         *)
(* A Gemini payload has no "type": the parser looks at its keys.  A        *)
(* payload is described by what the parser reads: whether it is JSON,      *)
(* whether it has an "error" key, where its groundingMetadata is and       *)
(* whether that holds any query, chunk or support, the parts of the first  *)
(* candidate, and whether it has usageMetadata.                            *)
(***************************************************************************)

\* Parts in the first candidate of a frame.
MaxParts == 2

\* A part with text, a thinking part, and a part without text (code, data).
GeminiParts ==
    { [thought |-> FALSE, has_text |-> TRUE],
      [thought |-> TRUE, has_text |-> TRUE],
      [thought |-> FALSE, has_text |-> FALSE] }

RECURSIVE PartLists(_)
PartLists(n) ==
    IF n = 0 THEN {<<>>}
    ELSE LET shorter == PartLists(n - 1)
         IN shorter \cup {Append(l, p) : l \in shorter, p \in GeminiParts}

GeminiFrames ==
    [ json : BOOLEAN,
      error : BOOLEAN,
      grounding : {"absent", "root", "candidate"},
      grounding_facts : BOOLEAN,
      parts : PartLists(MaxParts),
      usage : BOOLEAN ]

\* if let Some(text) = part["text"].as_str() for the first part that is not
\* a thinking part: is there such a part?
HasTextPart(f) == \E k \in 1..Len(f.parts) : ~f.parts[k].thought /\ f.parts[k].has_text
\* parts.iter().any(|p| p.get("thought") == Some(true))
has_thinking(f) == \E k \in 1..Len(f.parts) : f.parts[k].thought
\* if !queries.is_empty() || !chunks.is_empty() || !supports.is_empty()
HasGroundingFacts(f) == f.grounding # "absent" /\ f.grounding_facts

\* providers/gemini.rs: pub fn parse_sse_event(data: &str) ->
\* GeminiStreamEvent: the first test that holds returns.
gemini_parse_frame(f) ==
    IF ~f.json THEN <<"Unknown">>
    ELSE IF f.error THEN <<"Error">>
    ELSE IF HasGroundingFacts(f) THEN <<"GroundingMetadata">>
    ELSE IF HasTextPart(f) THEN <<"TextDelta">>
    ELSE IF has_thinking(f) THEN <<"ThinkingDelta">>
    ELSE IF f.usage THEN <<"ResponseComplete">>
    ELSE <<"Unknown">>

GeminiIdle ==
    /\ gm_frame = <<>>
    /\ gm_pc = "idle"
    /\ gm_events = <<>>

GeminiInit ==
    /\ gm_frame \in GeminiFrames
    /\ gm_pc = "line"
    /\ gm_events = <<>>

\* if let Some(data) = line.strip_prefix("data: ") { let events =
\* gemini_parse_sse_event(data); for event in events { ... } }
ParseGeminiFrame ==
    /\ gm_pc = "line"
    /\ gm_events' = gemini_parse_frame(gm_frame)
    /\ gm_pc' = "parsed"
    /\ UNCHANGED gm_frame
    /\ UNCHANGED beside_gemini

GeminiNext == ParseGeminiFrame

(***************************************************************************)
(* Part 15: a voice turn to its end.                                       *)
(*                                                                         *)
(* The loop of send_voice_message_impl handles the text frames of Part 8   *)
(* while the stream yields them; when the stream has no more (None =>      *)
(* break, or the frame with usageMetadata) the turn emits chat-stream-done *)
(* and returns Ok(()).                                                     *)
(***************************************************************************)

VoiceEndIdle == v_outcome = "idle"
VoiceEndInit == v_outcome = "running"

\* GeminiStreamEvent::TextDelta { text: t } inside the loop.
VoiceTurnDelta(n) ==
    /\ v_outcome = "running"
    /\ VoiceTextDelta(n)

\* None => break; window.emit("chat-stream-done", ...); Ok(())
VoiceTurnClosed ==
    /\ v_outcome = "running"
    /\ v_pos = Len(v_response)
    /\ v_emitted' = Append(v_emitted, VoiceEvent("chat-stream-done", <<>>, v_pos, v_pos))
    /\ v_outcome' = "done"
    /\ UNCHANGED <<v_response, v_pos, v_accumulated_text, v_full_response, transcription_emitted>>
    /\ UNCHANGED beside_voice_turn

\* Characters a frame adds to the cumulative text.
MaxFrameChars == 8

VoiceTurnFrame == \E n \in 1..MaxFrameChars : VoiceTurnDelta(n)
VoiceTurnNext == VoiceTurnFrame \/ VoiceTurnClosed

\* The provider sends the whole response and ends the stream; the loop
\* handles what stream.next() yields.
VoiceTurnFairness == WF_vars(VoiceTurnFrame) /\ WF_vars(VoiceTurnClosed)

(***************************************************************************)
(* Part 16: the byte stream to its end.                                    *)
(*                                                                         *)
(* The loops of Part 2 read chunks until stream.next() yields None, the    *)
(* connection being closed; then they break, emit chat-stream-done and     *)
(* return.  The frames handed to the parser are the variable frames.       *)
(***************************************************************************)

SseEndIdle == sse_outcome = "idle"
SseEndInit == sse_outcome = "running"

\* chunk = stream.next() => match chunk { Some(Ok(bytes)) => ... }
SseTurnChunk ==
    /\ sse_outcome = "running"
    /\ SseNext

\* A loop that hands what is left in the buffer to the parser when the
\* stream ends.
SseClosed_FlushesTail ==
    /\ sse_outcome = "running"
    /\ wire_pos = Len(wire)
    /\ sse_outcome' = "done"
    /\ frames' = IF buffer # <<>> THEN Append(frames, buffer) ELSE frames
    /\ buffer' = <<>>
    /\ UNCHANGED <<decoder, wire, wire_pos>>
    /\ UNCHANGED beside_sse_turn

\* None => break, and behind the loop: emit("chat-stream-done"); Ok(()).
\* The buffer is dropped with the other locals.
SseClosed ==
    /\ sse_outcome = "running"
    /\ wire_pos = Len(wire)
    /\ sse_outcome' = "done"
    /\ UNCHANGED <<decoder, wire, wire_pos, buffer, frames>>
    /\ UNCHANGED beside_sse_turn

SseTurnNext == SseTurnChunk \/ SseClosed

(***************************************************************************)
(* Part 17: the extractor on an array with a stray closing brace.          *)
(*                                                                         *)
(* The extractor and the deltas of Parts 4 and 11, on documents whose      *)
(* items array holds, between its items, closing braces that close         *)
(* nothing.                                                                *)
(***************************************************************************)

\* Number of elements in the array of such a document.
MaxStray == 3

\* A DiscoveryItem and a closing brace on its own.
StrayTexts == { <<"{", "F", "}">>, <<"}">> }

RECURSIVE StrayLists(_)
StrayLists(n) ==
    IF n = 0 THEN {<<>>}
    ELSE LET shorter == StrayLists(n - 1)
         IN shorter \cup {Append(l, o) : l \in shorter, o \in StrayTexts}

JsonStrayInit ==
    /\ parse_state = JsonParseState_new
    /\ doc_items \in StrayLists(MaxStray)
    /\ doc = <<"{", "Q", "i", "t", "e", "m", "s", "Q", ":", "[">>
                 \o Join(doc_items) \o <<"]", "}">>
    /\ doc_pos = 0
    /\ feed \in {"chars", "chunks"}
    /\ yielded = <<>>

(***************************************************************************)
(* Part 18: the audio recorder.                                            *)
(*                                                                         *)
(* The commands start_audio_recording, stop_audio_recording,               *)
(* stop_audio_recording_raw and cancel_audio_recording are async and run   *)
(* concurrently; they and the recording threads share one                  *)
(* Mutex<SharedRecordingData>.  A step is one block under the lock: the    *)
(* lock is released between the blocks of a command, at its sleeps and     *)
(* around thread::spawn.  A recording thread is named after the call that  *)
(* spawned it.                                                             *)
(***************************************************************************)

\* Concurrent command calls.
MaxAudioCalls == 3
\* Samples the callback appends before the model stops counting.
MaxSamples == 1

AudioCalls == 1..MaxAudioCalls
AudioCommands ==
    {"start_audio_recording", "stop_audio_recording", "stop_audio_recording_raw",
     "cancel_audio_recording"}
StopCommands == {"stop_audio_recording", "stop_audio_recording_raw"}

AudioIdle ==
    /\ rec_state = "Idle"
    /\ rec_should_stop = FALSE
    /\ rec_error = FALSE
    /\ rec_samples = 0
    /\ cmd_kind = <<>>
    /\ cmd_pc = <<>>
    /\ thread_pc = <<>>

\* SharedRecordingData::default(), and the commands the front end invokes.
AudioInit ==
    /\ rec_state = "Idle"
    /\ rec_should_stop = FALSE
    /\ rec_error = FALSE
    /\ rec_samples = 0
    /\ cmd_kind \in [AudioCalls -> AudioCommands]
    /\ cmd_pc = [c \in AudioCalls |-> "check"]
    /\ thread_pc = [c \in AudioCalls |-> "none"]

\* start_audio_recording: if guard.state == Recording { return Err(..) }
StartCheck(c) ==
    /\ cmd_kind[c] = "start_audio_recording"
    /\ cmd_pc[c] = "check"
    /\ cmd_pc' = [cmd_pc EXCEPT ![c] = IF rec_state = "Recording" THEN "rejected" ELSE "reset"]
    /\ UNCHANGED <<rec_state, rec_should_stop, rec_error, rec_samples, cmd_kind, thread_pc>>
    /\ UNCHANGED beside_audio

\* start_audio_recording: samples.clear(); error = None; should_stop =
\* false; state = Recording
StartReset(c) ==
    /\ cmd_pc[c] = "reset"
    /\ rec_samples' = 0
    /\ rec_error' = FALSE
    /\ rec_should_stop' = FALSE
    /\ rec_state' = "Recording"
    /\ cmd_pc' = [cmd_pc EXCEPT ![c] = "spawn"]
    /\ UNCHANGED <<cmd_kind, thread_pc>>
    /\ UNCHANGED beside_audio

\* start_audio_recording: thread::spawn(move || run_recording_thread(..))
StartSpawn(c) ==
    /\ cmd_pc[c] = "spawn"
    /\ thread_pc' = [thread_pc EXCEPT ![c] = "setup"]
    /\ cmd_pc' = [cmd_pc EXCEPT ![c] = "sleep"]
    /\ UNCHANGED <<rec_state, rec_should_stop, rec_error, rec_samples, cmd_kind>>
    /\ UNCHANGED beside_audio

\* start_audio_recording: after the sleep, Err(err) if guard.error is set,
\* Ok(()) otherwise.
StartReturn(c) ==
    /\ cmd_kind[c] = "start_audio_recording"
    /\ cmd_pc[c] = "sleep"
    /\ cmd_pc' = [cmd_pc EXCEPT ![c] = IF rec_error THEN "failed" ELSE "returned"]
    /\ UNCHANGED <<rec_state, rec_should_stop, rec_error, rec_samples, cmd_kind, thread_pc>>
    /\ UNCHANGED beside_audio

\* stop_audio_recording(_raw): if guard.state != Recording { return Err(..) }
StopCheck(c) ==
    /\ cmd_kind[c] \in StopCommands
    /\ cmd_pc[c] = "check"
    /\ cmd_pc' = [cmd_pc EXCEPT ![c] = IF rec_state # "Recording" THEN "rejected" ELSE "signal"]
    /\ UNCHANGED <<rec_state, rec_should_stop, rec_error, rec_samples, cmd_kind, thread_pc>>
    /\ UNCHANGED beside_audio

\* stop_audio_recording(_raw): should_stop = true; state = Stopping
StopSignal(c) ==
    /\ cmd_pc[c] = "signal"
    /\ rec_should_stop' = TRUE
    /\ rec_state' = "Stopping"
    /\ cmd_pc' = [cmd_pc EXCEPT ![c] = "wait"]
    /\ UNCHANGED <<rec_error, rec_samples, cmd_kind, thread_pc>>
    /\ UNCHANGED beside_audio

\* stop_audio_recording(_raw): loop { sleep(50ms); if state == Idle { break } }
\* A round of the loop that finds another state changes nothing.
StopWait(c) ==
    /\ cmd_pc[c] = "wait"
    /\ rec_state = "Idle"
    /\ cmd_pc' = [cmd_pc EXCEPT ![c] = "take"]
    /\ UNCHANGED <<rec_state, rec_should_stop, rec_error, rec_samples, cmd_kind, thread_pc>>
    /\ UNCHANGED beside_audio

\* stop_audio_recording(_raw): std::mem::take(&mut guard.samples),
\* guard.error.take(); then the result.
StopTake(c) ==
    /\ cmd_pc[c] = "take"
    /\ rec_samples' = 0
    /\ rec_error' = FALSE
    /\ cmd_pc' = [cmd_pc EXCEPT ![c] = IF rec_error \/ rec_samples = 0 THEN "failed" ELSE "returned"]
    /\ UNCHANGED <<rec_state, rec_should_stop, cmd_kind, thread_pc>>
    /\ UNCHANGED beside_audio

\* cancel_audio_recording: should_stop = true
CancelSignal(c) ==
    /\ cmd_kind[c] = "cancel_audio_recording"
    /\ cmd_pc[c] = "check"
    /\ rec_should_stop' = TRUE
    /\ cmd_pc' = [cmd_pc EXCEPT ![c] = "sleep"]
    /\ UNCHANGED <<rec_state, rec_error, rec_samples, cmd_kind, thread_pc>>
    /\ UNCHANGED beside_audio

\* cancel_audio_recording: after the sleep, samples.clear(); error = None;
\* state = Idle; Ok(())
CancelClear(c) ==
    /\ cmd_kind[c] = "cancel_audio_recording"
    /\ cmd_pc[c] = "sleep"
    /\ rec_samples' = 0
    /\ rec_error' = FALSE
    /\ rec_state' = "Idle"
    /\ cmd_pc' = [cmd_pc EXCEPT ![c] = "returned"]
    /\ UNCHANGED <<rec_should_stop, cmd_kind, thread_pc>>
    /\ UNCHANGED beside_audio

\* run_recording_thread: no input device, no config, no stream or no play:
\* error = Some(..); state = Idle; return
ThreadSetupFails(t) ==
    /\ thread_pc[t] = "setup"
    /\ rec_error' = TRUE
    /\ rec_state' = "Idle"
    /\ thread_pc' = [thread_pc EXCEPT ![t] = "exited"]
    /\ UNCHANGED <<rec_should_stop, rec_samples, cmd_kind, cmd_pc>>
    /\ UNCHANGED beside_audio

\* run_recording_thread: the stream is built and stream.play() is Ok.
ThreadPlays(t) ==
    /\ thread_pc[t] = "setup"
    /\ thread_pc' = [thread_pc EXCEPT ![t] = "polling"]
    /\ UNCHANGED <<rec_state, rec_should_stop, rec_error, rec_samples, cmd_kind, cmd_pc>>
    /\ UNCHANGED beside_audio

\* build_input_stream_*: the callback of a playing stream:
\* guard.samples.extend_from_slice(samples)
StreamCallback(t) ==
    /\ thread_pc[t] = "polling"
    /\ rec_samples < MaxSamples
    /\ rec_samples' = rec_samples + 1
    /\ UNCHANGED <<rec_state, rec_should_stop, rec_error, cmd_kind, cmd_pc, thread_pc>>
    /\ UNCHANGED beside_audio

\* run_recording_thread: loop { sleep(50ms); if should_stop { break } };
\* drop(stream).  A round of the loop that reads false changes nothing.
ThreadPoll(t) ==
    /\ thread_pc[t] = "polling"
    /\ rec_should_stop
    /\ thread_pc' = [thread_pc EXCEPT ![t] = "dropped"]
    /\ UNCHANGED <<rec_state, rec_should_stop, rec_error, rec_samples, cmd_kind, cmd_pc>>
    /\ UNCHANGED beside_audio

\* run_recording_thread: state = Idle; should_stop = false; the thread ends.
ThreadFinish(t) ==
    /\ thread_pc[t] = "dropped"
    /\ rec_state' = "Idle"
    /\ rec_should_stop' = FALSE
    /\ thread_pc' = [thread_pc EXCEPT ![t] = "exited"]
    /\ UNCHANGED <<rec_error, rec_samples, cmd_kind, cmd_pc>>
    /\ UNCHANGED beside_audio

AudioNext ==
    \E c \in AudioCalls :
        \/ StartCheck(c) \/ StartReset(c) \/ StartSpawn(c) \/ StartReturn(c)
        \/ StopCheck(c) \/ StopSignal(c) \/ StopWait(c) \/ StopTake(c)
        \/ CancelSignal(c) \/ CancelClear(c)
        \/ ThreadSetupFails(c) \/ ThreadPlays(c) \/ StreamCallback(c)
        \/ ThreadPoll(c) \/ ThreadFinish(c)

\* Every command and every thread goes on running: the runtime schedules
\* each task and the system each thread.
AudioFairness ==
    \A c \in AudioCalls :
        /\ WF_vars(StartCheck(c)) /\ WF_vars(StartReset(c))
        /\ WF_vars(StartSpawn(c)) /\ WF_vars(StartReturn(c))
        /\ WF_vars(StopCheck(c)) /\ WF_vars(StopSignal(c))
        /\ WF_vars(StopWait(c)) /\ WF_vars(StopTake(c))
        /\ WF_vars(CancelSignal(c)) /\ WF_vars(CancelClear(c))
        /\ WF_vars(ThreadSetupFails(c) \/ ThreadPlays(c))
        /\ WF_vars(ThreadPoll(c)) /\ WF_vars(ThreadFinish(c))

(***************************************************************************)
(* Part 19: the credential store.                                          *)
(*                                                                         *)
(* save_api_key_secure and get_api_key_secure are called from async        *)
(* commands that run concurrently.  A step is one access to KEYS_CACHE     *)
(* under its RwLock, or one access to the file: no lock is held from one   *)
(* to the next.  A set of keys is a function from the providers to a key,  *)
(* 0 where the provider has none; the key a save stores is the number of   *)
(* its call.                                                               *)
(***************************************************************************)

\* Concurrent calls on the store.
MaxKeyCalls == 3

KeyCalls == 1..MaxKeyCalls
KeyProviders == {"anthropic", "openai"}
KeyOps == [op : {"save", "get"}, provider : KeyProviders]
\* HashMap::new()
EmptyKeys == [p \in KeyProviders |-> 0]

KeyStoreIdle ==
    /\ key_file = <<>>
    /\ keys_cache = <<>>
    /\ key_op = <<>>
    /\ key_pc = <<>>
    /\ key_local = <<>>
    /\ key_after = <<>>
    /\ key_result = <<>>

\* No file yet, KEYS_CACHE = RwLock::new(None), and the calls to come.
KeyStoreInit ==
    /\ key_file = EmptyKeys
    /\ keys_cache = None
    /\ key_op \in [KeyCalls -> KeyOps]
    /\ key_pc = [c \in KeyCalls |-> "start"]
    /\ key_local = [c \in KeyCalls |-> EmptyKeys]
    /\ key_after = [c \in KeyCalls |-> FALSE]
    /\ key_result = [c \in KeyCalls |-> 0]

\* Two saves for different providers have returned Ok.
TwoSavesReturned ==
    \E a, b \in KeyCalls :
        /\ key_op[a].op = "save" /\ key_op[b].op = "save"
        /\ key_op[a].provider # key_op[b].provider
        /\ key_pc[a] = "returned" /\ key_pc[b] = "returned"

\* get_cached_keys: the read of the cache.  Some(keys) returns a clone; None
\* goes on to the disk.
CachedKeysRead(c) ==
    /\ key_pc[c] = "start"
    /\ key_after' = [key_after EXCEPT ![c] = TwoSavesReturned]
    /\ IF keys_cache.some
       THEN /\ key_local' = [key_local EXCEPT ![c] = keys_cache.value]
            /\ key_pc' = [key_pc EXCEPT ![c] = "have_keys"]
       ELSE /\ key_local' = key_local
            /\ key_pc' = [key_pc EXCEPT ![c] = "load"]
    /\ UNCHANGED <<key_file, keys_cache, key_op, key_result>>
    /\ UNCHANGED beside_keystore

\* get_cached_keys: let keys = load_keys_from_disk(app)?
CachedKeysLoad(c) ==
    /\ key_pc[c] = "load"
    /\ key_local' = [key_local EXCEPT ![c] = key_file]
    /\ key_pc' = [key_pc EXCEPT ![c] = "populate"]
    /\ UNCHANGED <<key_file, keys_cache, key_op, key_after, key_result>>
    /\ UNCHANGED beside_keystore

\* get_cached_keys: *cache = Some(keys.clone())
CachedKeysPopulate(c) ==
    /\ key_pc[c] = "populate"
    /\ keys_cache' = Some(key_local[c])
    /\ key_pc' = [key_pc EXCEPT ![c] = "have_keys"]
    /\ UNCHANGED <<key_file, key_op, key_local, key_after, key_result>>
    /\ UNCHANGED beside_keystore

\* save_api_key_secure: keys.insert(key_name, api_key); save_keys:
\* fs::write(&path, encrypted)
SaveWriteFile(c) ==
    /\ key_op[c].op = "save"
    /\ key_pc[c] = "have_keys"
    /\ LET with_key == [key_local[c] EXCEPT ![key_op[c].provider] = c]
       IN /\ key_local' = [key_local EXCEPT ![c] = with_key]
          /\ key_file' = with_key
    /\ key_pc' = [key_pc EXCEPT ![c] = "written"]
    /\ UNCHANGED <<keys_cache, key_op, key_after, key_result>>
    /\ UNCHANGED beside_keystore

\* save_keys: fs::write fails: Err("Failed to write keys file: ..")
SaveWriteFails(c) ==
    /\ key_op[c].op = "save"
    /\ key_pc[c] = "have_keys"
    /\ key_pc' = [key_pc EXCEPT ![c] = "failed"]
    /\ UNCHANGED <<key_file, keys_cache, key_op, key_local, key_after, key_result>>
    /\ UNCHANGED beside_keystore

\* save_keys: *cache = Some(keys.clone()); Ok(())
SaveUpdateCache(c) ==
    /\ key_pc[c] = "written"
    /\ keys_cache' = Some(key_local[c])
    /\ key_pc' = [key_pc EXCEPT ![c] = "returned"]
    /\ UNCHANGED <<key_file, key_op, key_local, key_after, key_result>>
    /\ UNCHANGED beside_keystore

\* get_api_key_secure: keys.get(&key_name).cloned().ok_or_else(..)
GetReturn(c) ==
    /\ key_op[c].op = "get"
    /\ key_pc[c] = "have_keys"
    /\ key_result' = [key_result EXCEPT ![c] = key_local[c][key_op[c].provider]]
    /\ key_pc' = [key_pc EXCEPT ![c] = IF key_local[c][key_op[c].provider] = 0
                                       THEN "not_found" ELSE "returned"]
    /\ UNCHANGED <<key_file, keys_cache, key_op, key_local, key_after>>
    /\ UNCHANGED beside_keystore

KeyStoreNext ==
    \E c \in KeyCalls :
        \/ CachedKeysRead(c) \/ CachedKeysLoad(c) \/ CachedKeysPopulate(c)
        \/ SaveWriteFile(c) \/ SaveWriteFails(c) \/ SaveUpdateCache(c)
        \/ GetReturn(c)

(***************************************************************************)
(* The specifications.                                                     *)
(***************************************************************************)

Init == TurnInit /\ SseIdle /\ DiffIdle /\ JsonIdle /\ RouteIdle /\ FrameIdle /\ DiscoveryIdle /\ VoiceIdle /\ OffsetIdle /\ StartIdle /\ BlockIdle /\ InterpIdle /\ GeminiIdle /\ VoiceEndIdle /\ SseEndIdle /\ AudioIdle /\ KeyStoreIdle
InitSSE == TurnInit /\ SseInit /\ DiffIdle /\ JsonIdle /\ RouteIdle /\ FrameIdle /\ DiscoveryIdle /\ VoiceIdle /\ OffsetIdle /\ StartIdle /\ BlockIdle /\ InterpIdle /\ GeminiIdle /\ VoiceEndIdle /\ SseEndIdle /\ AudioIdle /\ KeyStoreIdle
InitDiff == TurnInit /\ SseIdle /\ DiffInit /\ JsonIdle /\ RouteIdle /\ FrameIdle /\ DiscoveryIdle /\ VoiceIdle /\ OffsetIdle /\ StartIdle /\ BlockIdle /\ InterpIdle /\ GeminiIdle /\ VoiceEndIdle /\ SseEndIdle /\ AudioIdle /\ KeyStoreIdle
InitJson == TurnInit /\ SseIdle /\ DiffIdle /\ JsonInit /\ RouteIdle /\ FrameIdle /\ DiscoveryIdle /\ VoiceIdle /\ OffsetIdle /\ StartIdle /\ BlockIdle /\ InterpIdle /\ GeminiIdle /\ VoiceEndIdle /\ SseEndIdle /\ AudioIdle /\ KeyStoreIdle
InitRoute == TurnInit /\ SseIdle /\ DiffIdle /\ JsonIdle /\ RouteInit /\ FrameIdle /\ DiscoveryIdle /\ VoiceIdle /\ OffsetIdle /\ StartIdle /\ BlockIdle /\ InterpIdle /\ GeminiIdle /\ VoiceEndIdle /\ SseEndIdle /\ AudioIdle /\ KeyStoreIdle
InitFrames == TurnInit /\ SseIdle /\ DiffIdle /\ JsonIdle /\ RouteIdle /\ FrameInit /\ DiscoveryIdle /\ VoiceIdle /\ OffsetIdle /\ StartIdle /\ BlockIdle /\ InterpIdle /\ GeminiIdle /\ VoiceEndIdle /\ SseEndIdle /\ AudioIdle /\ KeyStoreIdle
InitDiscovery == TurnInit /\ SseIdle /\ DiffIdle /\ JsonIdle /\ RouteIdle /\ FrameIdle /\ DiscoveryInit /\ VoiceIdle /\ OffsetIdle /\ StartIdle /\ BlockIdle /\ InterpIdle /\ GeminiIdle /\ VoiceEndIdle /\ SseEndIdle /\ AudioIdle /\ KeyStoreIdle
InitVoice == TurnInit /\ SseIdle /\ DiffIdle /\ JsonIdle /\ RouteIdle /\ FrameIdle /\ DiscoveryIdle /\ VoiceInit /\ OffsetIdle /\ StartIdle /\ BlockIdle /\ InterpIdle /\ GeminiIdle /\ VoiceEndIdle /\ SseEndIdle /\ AudioIdle /\ KeyStoreIdle
InitOffset == TurnInit /\ SseIdle /\ DiffIdle /\ JsonIdle /\ RouteIdle /\ FrameIdle /\ DiscoveryIdle /\ VoiceIdle /\ OffsetInit /\ StartIdle /\ BlockIdle /\ InterpIdle /\ GeminiIdle /\ VoiceEndIdle /\ SseEndIdle /\ AudioIdle /\ KeyStoreIdle
InitStart == TurnInit /\ SseIdle /\ DiffIdle /\ JsonIdle /\ RouteIdle /\ FrameIdle /\ DiscoveryIdle /\ VoiceIdle /\ OffsetIdle /\ StartInit /\ BlockIdle /\ InterpIdle /\ GeminiIdle /\ VoiceEndIdle /\ SseEndIdle /\ AudioIdle /\ KeyStoreIdle
InitJsonDocs == TurnInit /\ SseIdle /\ DiffIdle /\ JsonDocsInit /\ RouteIdle /\ FrameIdle /\ DiscoveryIdle /\ VoiceIdle /\ OffsetIdle /\ StartIdle /\ BlockIdle /\ InterpIdle /\ GeminiIdle /\ VoiceEndIdle /\ SseEndIdle /\ AudioIdle /\ KeyStoreIdle
InitJsonStray == TurnInit /\ SseIdle /\ DiffIdle /\ JsonStrayInit /\ RouteIdle /\ FrameIdle /\ DiscoveryIdle /\ VoiceIdle /\ OffsetIdle /\ StartIdle /\ BlockIdle /\ InterpIdle /\ GeminiIdle /\ VoiceEndIdle /\ SseEndIdle /\ AudioIdle /\ KeyStoreIdle
InitBlocks == TurnInit /\ SseIdle /\ DiffIdle /\ JsonIdle /\ RouteIdle /\ FrameIdle /\ DiscoveryIdle /\ VoiceIdle /\ OffsetIdle /\ StartIdle /\ BlockInit /\ InterpIdle /\ GeminiIdle /\ VoiceEndIdle /\ SseEndIdle /\ AudioIdle /\ KeyStoreIdle
InitInterp == TurnInit /\ SseIdle /\ DiffIdle /\ JsonIdle /\ RouteIdle /\ FrameIdle /\ DiscoveryIdle /\ VoiceIdle /\ OffsetIdle /\ StartIdle /\ BlockIdle /\ InterpInit /\ GeminiIdle /\ VoiceEndIdle /\ SseEndIdle /\ AudioIdle /\ KeyStoreIdle
InitGeminiFrame == TurnInit /\ SseIdle /\ DiffIdle /\ JsonIdle /\ RouteIdle /\ FrameIdle /\ DiscoveryIdle /\ VoiceIdle /\ OffsetIdle /\ StartIdle /\ BlockIdle /\ InterpIdle /\ GeminiInit /\ VoiceEndIdle /\ SseEndIdle /\ AudioIdle /\ KeyStoreIdle
InitVoiceTurn == TurnInit /\ SseIdle /\ DiffIdle /\ JsonIdle /\ RouteIdle /\ FrameIdle /\ DiscoveryIdle /\ VoiceInit /\ OffsetIdle /\ StartIdle /\ BlockIdle /\ InterpIdle /\ GeminiIdle /\ VoiceEndInit /\ SseEndIdle /\ AudioIdle /\ KeyStoreIdle
InitSseTurn == TurnInit /\ SseInit /\ DiffIdle /\ JsonIdle /\ RouteIdle /\ FrameIdle /\ DiscoveryIdle /\ VoiceIdle /\ OffsetIdle /\ StartIdle /\ BlockIdle /\ InterpIdle /\ GeminiIdle /\ VoiceEndIdle /\ SseEndInit /\ AudioIdle /\ KeyStoreIdle
InitAudio == TurnInit /\ SseIdle /\ DiffIdle /\ JsonIdle /\ RouteIdle /\ FrameIdle /\ DiscoveryIdle /\ VoiceIdle /\ OffsetIdle /\ StartIdle /\ BlockIdle /\ InterpIdle /\ GeminiIdle /\ VoiceEndIdle /\ SseEndIdle /\ AudioInit /\ KeyStoreIdle
InitKeyStore == TurnInit /\ SseIdle /\ DiffIdle /\ JsonIdle /\ RouteIdle /\ FrameIdle /\ DiscoveryIdle /\ VoiceIdle /\ OffsetIdle /\ StartIdle /\ BlockIdle /\ InterpIdle /\ GeminiIdle /\ VoiceEndIdle /\ SseEndIdle /\ AudioIdle /\ KeyStoreInit
Next == TurnNext

\* Concurrent turns and cancel_chat_stream calls.
Spec == Init /\ [][Next]_vars
\* One turn, every class of frame, and cancel_chat_stream calls.
SpecTurn == Init /\ [][OneTurnNext]_vars
\* A text on the wire, cut into chunks, through one of the two decoders.
SpecSSE == InitSSE /\ [][SseNext]_vars
\* A stream of cumulative text and thinking values.
SpecDiff == InitDiff /\ [][DiffNext]_vars
\* A document of discovery items, streamed through extract_items_from_buffer.
SpecJson == InitJson /\ [][JsonNext]_vars
\* A model identifier, routed by the chat router and by the discovery router.
SpecRoute == InitRoute /\ [][RouteNext]_vars
\* The frames of one chat turn of one provider, handled in order.
SpecFrames == InitFrames /\ [][FrameNext]_vars
\* One discovery stream of one provider: the request, the chunks, the end.
SpecDiscovery == InitDiscovery /\ [][DiscoveryNext]_vars
\* A voice response, carried by cumulative text frames cut anywhere.
SpecVoice == InitVoice /\ [][VoiceNext]_vars
\* A response text and an end_index, through byte_offset_to_char_offset.
SpecOffset == InitOffset /\ [][OffsetNext]_vars
\* Command calls (chat turns and cancels) over the lock, the slot and the key store.
SpecStart == InitStart /\ [][StartNext]_vars
\* The start of a turn under fair scheduling.  The runtime runs every task that
\* can go on: a task waiting for the mutex gets it (tokio's Mutex is fair), a
\* task holding the guard installs or fires and drops it, the key store
\* answers.  tokio::select! polls its ready branches in random order, so a
\* cancelled() that is ready whenever the loop comes back to the select is
\* taken at last: strong fairness.  Nothing makes the network answer: the
\* request, the next chunk and the file's metadata carry no fairness.
StartFairness ==
    \A c \in Calls :
        /\ WF_vars(AcquireLock(c))
        /\ WF_vars(InstallAndUnlock(c))
        /\ WF_vars(TakeFireAndUnlock(c))
        /\ WF_vars(GetApiKeyAsync(c))
        /\ SF_vars(StartSelectCancelled(c))
SpecStartLive == InitStart /\ [][StartNext]_vars /\ StartFairness
\* The extractor on documents of other shapes.
SpecJsonDocs == InitJsonDocs /\ [][JsonDocsNext]_vars
\* The content blocks of an Anthropic turn.
SpecBlocks == InitBlocks /\ [][BlockNext]_vars
\* An OpenAI code-interpreter call.
SpecInterp == InitInterp /\ [][InterpNext]_vars
\* One Gemini frame through the parser.
SpecGeminiFrame == InitGeminiFrame /\ [][GeminiNext]_vars
\* A voice turn to its end.
SpecVoiceTurn == InitVoiceTurn /\ [][VoiceTurnNext]_vars
SpecVoiceTurnLive == SpecVoiceTurn /\ VoiceTurnFairness
\* The byte stream to its end.
SpecSseTurn == InitSseTurn /\ [][SseTurnNext]_vars
\* The extractor on an array with a stray closing brace.
SpecJsonStray == InitJsonStray /\ [][JsonDocsNext]_vars
\* The audio recorder.
SpecAudio == InitAudio /\ [][AudioNext]_vars
SpecAudioLive == SpecAudio /\ AudioFairness
\* The credential store.
SpecKeyStore == InitKeyStore /\ [][KeyStoreNext]_vars


(***************************************************************************)
(* Properties of a turn and of the cancellation coordinator.               *)
(***************************************************************************)

Terminal(e) == e \in {EvDone, EvCancelled}
Has(s, e) == \E i \in 1..Len(s) : s[i] = e
Streaming(t) == pc[t] \in {"select", "lines"}

\* C1: a turn ends with exactly one of done, error (the command returns
\* Err) and cancelled, and emits nothing after it.  In every reachable state
\* a done or cancelled event is the last event of its turn and its turn has
\* returned Ok; a turn that returned Ok ends with exactly one of the two; a
\* turn that returned Err has emitted neither; a turn that has not returned
\* has no outcome.
C1_TerminalOutcome ==
    \A t \in Turns :
        LET s == emitted[t]
        IN /\ \A i \in 1..Len(s) :
                  Terminal(s[i]) => i = Len(s) /\ pc[t] = "returned" /\ ret[t] = "Ok"
           /\ pc[t] = "returned" =>
                  \/ ret[t] = "Ok" /\ s # <<>> /\ Terminal(s[Len(s)])
                  \/ ret[t] = "Err" /\ ~ Has(s, EvDone) /\ ~ Has(s, EvCancelled)
           /\ pc[t] # "returned" => ret[t] = "none"

\* A turn that sent a container id and a delta and then ended with done.
C1_Witness ==
    /\ pc[1] = "returned"
    /\ emitted[1] = <<EvContainer, EvDelta, EvDone>>

\* C2: a turn that has emitted a cancelled event observed its own fired
\* token, emitted exactly one cancelled and no done, and returned Ok.
C2_CancelledOutcome ==
    \A t \in Turns :
        Has(emitted[t], EvCancelled) =>
            /\ t \in is_cancelled
            /\ Count(emitted[t], EvCancelled) = 1
            /\ Count(emitted[t], EvDone) = 0
            /\ pc[t] = "returned"
            /\ ret[t] = "Ok"

\* A turn cancelled in mid-stream.
C2_Witness ==
    \E t \in Turns : emitted[t] = <<EvDelta, EvCancelled>> /\ ret[t] = "Ok"

\* C3: cancel_chat_stream called during a turn's start-up (after the turn's
\* invocation, before the provider delivered anything to it) cancels that
\* turn: once the turn has installed its token the token is fired, the turn
\* emits no delta, and, unless its start-up failed, it ends with exactly one
\* cancelled event and nothing else.
C3_CancelBeforeAnyFrame ==
    \A t \in Turns :
        raced[t] =>
            /\ pc[t] # "install" => t \in is_cancelled
            /\ Count(emitted[t], EvDelta) = 0
            /\ pc[t] = "returned" /\ ret[t] = "Ok" => emitted[t] = <<EvCancelled>>

\* C4 as stated: once a turn's token has been fired the turn emits no
\* further delta.
C4_NoDeltaAfterFired ==
    [][\A t \in Turns :
          t \in is_cancelled =>
              Count(emitted'[t], EvDelta) = Count(emitted[t], EvDelta)]_vars

\* C4, amended: the fired token is observed at the select.  A turn whose
\* token has been fired and that waits at the select with no chunk ready
\* does nothing but emit cancelled and return Ok, with no delta in between;
\* a delta emitted after the firing belongs to a chunk that was taken at
\* the select (ready at the same moment) or was being processed.
C4_StopsAtSelect ==
    [][\A t \in Turns :
          /\ (/\ t \in is_cancelled
              /\ pc[t] = "select"
              /\ stream[t] # "ready"
              /\ <<pc[t], ret[t], emitted[t]>>' # <<pc[t], ret[t], emitted[t]>>)
             => /\ emitted'[t] = Append(emitted[t], EvCancelled)
                /\ pc'[t] = "returned"
                /\ ret'[t] = "Ok"
          /\ (/\ t \in is_cancelled
              /\ emitted'[t] # emitted[t]
              /\ Count(emitted'[t], EvDelta) > Count(emitted[t], EvDelta))
             => pc[t] = "lines"]_turn_vars

\* A turn that has emitted a delta, waits for the next chunk and has had
\* its token fired.
C4_Witness ==
    \E t \in Turns :
        /\ t \in is_cancelled
        /\ pc[t] = "select"
        /\ stream[t] = "waiting"
        /\ Has(emitted[t], EvDelta)

\* C5: at most one turn is streaming at any time.
C5_AtMostOneStreaming == Cardinality({t \in Turns : Streaming(t)}) <= 1

\* C6: installing a token fires nothing and puts the new token in the slot;
\* the slot changes only by an install or by being emptied; the only token
\* a step fires is the one in the slot, so a replaced token is never fired;
\* and a turn emits cancelled only if its own token has been fired.
C6_ReplacedTokenNeverFired ==
    [][/\ is_cancelled' \subseteq is_cancelled \cup ({cancel_token} \ {0})
       /\ \A t \in Turns :
             /\ (pc[t] = "install" /\ pc'[t] # "install")
                => cancel_token' = t /\ is_cancelled' = is_cancelled
             /\ (cancel_token' = t /\ cancel_token # t)
                => pc[t] = "install" /\ pc'[t] # "install"
             /\ (/\ emitted'[t] # emitted[t]
                 /\ Count(emitted'[t], EvCancelled) > Count(emitted[t], EvCancelled))
                => t \in is_cancelled]_turn_vars

\* A turn whose token was replaced streams on, not cancelled, while the
\* turn that replaced it has been cancelled.
C6_Witness ==
    \E t, u \in Turns :
        /\ t < u
        /\ Streaming(t)
        /\ t \notin is_cancelled
        /\ Has(emitted[t], EvDelta)
        /\ Has(emitted[u], EvCancelled)

\* C7: a cancel_chat_stream call emits nothing, changes no turn's outcome
\* or position, leaves the slot empty, fires at most the one token that was
\* in the slot, and fires nothing when the slot was empty (as it is after a
\* first call); and no step changes what a returned turn has emitted or
\* returned.
C7_CancelSafeIdempotent ==
    [][/\ cancel_chat_stream =>
             /\ emitted' = emitted /\ ret' = ret /\ pc' = pc
             /\ cancel_token' = 0
             /\ is_cancelled' \subseteq is_cancelled \cup {cancel_token}
             /\ cancel_token = 0 => is_cancelled' = is_cancelled
       /\ \A t \in Turns :
             pc[t] = "returned" =>
                 emitted'[t] = emitted[t] /\ ret'[t] = ret[t] /\ pc'[t] = "returned"]_turn_vars

\* cancel_chat_stream fired the token of a turn that had ended with done:
\* the turn's events and result are as they were.
C7_Witness ==
    \E t \in Turns :
        /\ pc[t] = "returned"
        /\ t \in is_cancelled
        /\ cancel_token = 0
        /\ emitted[t] = <<EvDelta, EvDone>>
        /\ ret[t] = "Ok"

(***************************************************************************)
(* Properties of the frame decoders.                                       *)
(***************************************************************************)

\* The text that was put on the wire.
WireText == from_utf8_lossy(wire)

\* C8: once every byte has arrived, in whatever chunks, the frames the
\* blank-line decoder has split off are the frames it splits off the whole
\* text arriving as one chunk.
C8_ChunkPartitionInvariant ==
    (decoder = "blank_line" /\ wire_pos = Len(wire))
        => frames = SplitBlankLine(WireText, <<>>).frames

\* A line without its line ending: one trailing carriage return is removed.
WithoutCR(l) == IF l # <<>> /\ l[Len(l)] = "CR" THEN SubSeq(l, 1, Len(l) - 1) ELSE l

RECURSIVE CompleteLines(_)
\* The newline-terminated lines of a text, in order.
CompleteLines(s) ==
    LET lf == {i \in 1..Len(s) : s[i] = "LF"}
    IN IF lf = {} THEN <<>>
       ELSE LET i == CHOOSE i \in lf : \A j \in lf : i <= j
            IN <<WithoutCR(SubSeq(s, 1, i - 1))>> \o CompleteLines(SubSeq(s, i + 1, Len(s)))

\* What follows the last newline of a text.
PartialTail(s) ==
    LET lf == {i \in 1..Len(s) : s[i] = "LF"}
    IN IF lf = {} THEN s
       ELSE SubSeq(s, (CHOOSE i \in lf : \A j \in lf : j <= i) + 1, Len(s))

\* C9: once every byte has arrived, in whatever chunks, the newline decoder
\* has yielded the N newline-terminated lines of the text, in order, each
\* without its trailing carriage return, and the buffer holds the partial
\* line after them.  (Texts in which a line ends in more than one carriage
\* return are left aside.)
C9_LinesAndPartialTail ==
    (decoder = "newline" /\ wire_pos = Len(wire) /\ Find(WireText, <<"CR", "CR", "LF">>) = 0)
        => /\ frames = CompleteLines(WireText)
           /\ buffer = PartialTail(WireText)

(***************************************************************************)
(* Properties of the cumulative differences.                               *)
(***************************************************************************)

\* The value tracked for a kind before the i-th cumulative value: the last
\* earlier value of that kind, or the empty string.
Tracked(i, kind) ==
    LET earlier == {j \in 1..(i - 1) : cumulative[j].kind = kind}
    IN IF earlier = {} THEN <<>>
       ELSE cumulative[CHOOSE j \in earlier : \A k \in earlier : k <= j].text

\* t without the prefix a when t starts with a, t in full otherwise.
Difference(a, t) ==
    LET rests == {s \in {SubSeq(t, k, Len(t)) : k \in 1..(Len(t) + 1)} : a \o s = t}
    IN IF rests # {} THEN CHOOSE s \in rests : TRUE ELSE t

\* The difference of every cumulative value against the value tracked for
\* its kind, in order.
Differences ==
    [i \in 1..Len(cumulative) |->
        [kind |-> cumulative[i].kind,
         text |-> Difference(Tracked(i, cumulative[i].kind), cumulative[i].text)]]

NonEmpty(d) == d.text # <<>>

\* C10 as stated: every cumulative value yields an emission, of its
\* difference against the value tracked for its kind.
C10_EmitsEveryDifference == deltas = Differences

\* C10, amended: the emissions are the differences that are not empty, in
\* order (a value equal to the tracked one emits nothing); text and thinking
\* are tracked separately, and the tracked value is the last value received.
C10_EmitsNonEmptyDifferences ==
    /\ deltas = SelectSeq(Differences, NonEmpty)
    /\ accumulated_text = Tracked(Len(cumulative) + 1, "text")
    /\ accumulated_thinking = Tracked(Len(cumulative) + 1, "thinking")

\* A suffix, then a repeated value that emits nothing, with a thinking
\* value in between.
C10_Witness ==
    /\ cumulative = << [kind |-> "text", text |-> <<"a">>],
                       [kind |-> "thinking", text |-> <<"b">>],
                       [kind |-> "text", text |-> <<"a">>] >>
    /\ deltas = << [kind |-> "text", text |-> <<"a">>],
                   [kind |-> "thinking", text |-> <<"b">>] >>

(***************************************************************************)
(* Properties of the extractor of discovery items.                         *)
(***************************************************************************)

\* The items returned so far, in order.
YieldedItems == [i \in 1..Len(yielded) |-> yielded[i].item]

\* C11: after every call, whatever the split into chunks, the items the
\* calls have returned, concatenated, and the parse state are those of one
\* call with a fresh state on all the text fed so far; so for the whole
\* document.
C11_ChunkInvariant ==
    LET whole == extract_items_from_buffer(SubSeq(doc, 1, doc_pos), JsonParseState_new)
    IN /\ YieldedItems = whole.items
       /\ parse_state = whole.state

\* The whole document was fed in chunks, two items were returned by
\* different calls, and the chunk that completed the first item ended
\* inside the second.
C11_Witness ==
    /\ feed = "chunks"
    /\ doc_pos = Len(doc)
    /\ Len(yielded) = 2
    /\ yielded[1].to < yielded[2].to
    /\ doc[yielded[1].to] \notin {"}", ","}

RECURSIVE JoinedLen(_)
\* The length of Join(l).
JoinedLen(l) ==
    IF l = <<>> THEN 0
    ELSE IF Len(l) = 1 THEN Len(l[1])
    ELSE Len(l[1]) + 1 + JoinedLen(Tail(l))

\* The position in the document of the closing brace of the k-th object.
ClosePos(k) == (Len(doc) - 2 - JoinedLen(doc_items)) + JoinedLen(SubSeq(doc_items, 1, k))

RECURSIVE ClosedObjects(_, _)
\* From the k-th on, the top-level objects whose closing brace has been fed,
\* each with the position of that brace; only those that deserialize as a
\* DiscoveryItem when every_shape is FALSE.
ClosedObjects(k, every_shape) ==
    IF k > Len(doc_items) THEN <<>>
    ELSE (IF /\ ClosePos(k) <= doc_pos
             /\ (every_shape \/ from_str_DiscoveryItem(doc_items[k]) # <<>>)
          THEN << [to |-> ClosePos(k), item |-> doc_items[k]] >>
          ELSE <<>>) \o ClosedObjects(k + 1, every_shape)

\* C12 as stated: fed one character at a time, the extractor has returned
\* one item per top-level object closed so far, in array order, each by the
\* call that consumed its closing brace; {"a":1} counts as an item.
C12_OneItemPerObject ==
    feed = "chars" => yielded = ClosedObjects(1, TRUE)

\* C12, amended: fed one character at a time, the extractor has returned
\* one item per top-level object closed so far that deserializes as a
\* DiscoveryItem, in array order, each by the call that consumed its closing
\* brace; an object of another shape, such as {"a":1}, yields nothing.
C12_OneItemPerDiscoveryItem ==
    feed = "chars" => yielded = ClosedObjects(1, FALSE)

\* {"items":[{"a":1},o]} fed to its end one character at a time, o holding
\* a closing brace in a string: one item, o.
C12_Witness ==
    /\ feed = "chars"
    /\ doc_pos = Len(doc)
    /\ doc_items = << <<"{", "a", "}">>, <<"{", "F", ",", "Q", "}", "Q", "}">> >>
    /\ Len(yielded) = 1
    /\ yielded[1].item = doc_items[2]

(***************************************************************************)
(* Properties of the provider selection.                                   *)
(***************************************************************************)

\* The identifiers that begin with the characters of p.
Beginning(p) == {m \in ModelIds : \E k \in 0..Len(m) : SubSeq(m, 1, k) = p}

OpenAIModels ==
    Beginning(<<"g", "p", "t">>) \cup Beginning(<<"o", "3">>) \cup Beginning(<<"o", "4">>)
GeminiModels == Beginning(<<"g", "e", "m", "i", "n", "i">>)

\* The provider the rule gives a model.
RuleProvider(m) ==
    IF m \in OpenAIModels THEN "openai"
    ELSE IF m \in GeminiModels THEN "google"
    ELSE "anthropic"

\* C13: the chat router and the discovery router each give a model the
\* provider of the rule (gpt, o3, o4: OpenAI; gemini: Gemini; anything
\* else, the empty identifier included: Anthropic), so they agree.
C13_ProviderByPrefix ==
    /\ chat_provider # "none" => chat_provider = RuleProvider(model)
    /\ discovery_provider # "none" => discovery_provider = RuleProvider(model)
    /\ (chat_provider # "none" /\ discovery_provider # "none")
           => chat_provider = discovery_provider

\* o4-m routed to OpenAI by both routers.
C13_Witness ==
    /\ model = <<"o", "4", "-", "m">>
    /\ chat_provider = "openai"
    /\ discovery_provider = "openai"


(***************************************************************************)
(* Properties of the frames of a chat turn.                                *)
(***************************************************************************)

RECURSIVE RunFrames(_, _, _)
\* The turn of provider p over the frames fs, from the outcome h so far: each
\* frame is handled while the turn is running.
RunFrames(p, fs, h) ==
    IF fs = <<>> \/ h.result # Running THEN h
    ELSE LET one == HandleFrame(p, h.acc, Head(fs))
         IN RunFrames(p, Tail(fs), Handled(one.acc, h.out \o one.out, one.result))

RECURSIVE WithoutMalformed(_)
\* The frames of fs whose payload is JSON.
WithoutMalformed(fs) ==
    IF fs = <<>> THEN <<>>
    ELSE IF Head(fs).kind = "malformed" THEN WithoutMalformed(Tail(fs))
    ELSE <<Head(fs)>> \o WithoutMalformed(Tail(fs))

\* The frames handled so far, and the events sent out without their frames.
Decoded == SubSeq(incoming, 1, frame_pos)
Events == [k \in 1..Len(outward) |-> outward[k].event]
EventsOf(i) == {k \in 1..Len(outward) : outward[k].frame = i}
\* The stream ended without a terminal frame and the turn emitted its done.
Closed == outward # <<>> /\ outward[Len(outward)].frame > Len(incoming)

\* C14: a frame whose payload is malformed JSON emits no event, does not end
\* the turn, and leaves no trace: for each provider, the accumulation state,
\* the events emitted and the outcome of the turn are those of the same
\* stream with its malformed frames taken out.
C14_MalformedFrameIgnored ==
    provider \in Providers =>
        LET ref == RunFrames(provider, WithoutMalformed(Decoded), Handled(AccNew, <<>>, Running))
        IN /\ \A i \in 1..frame_pos : incoming[i].kind = "malformed" => EventsOf(i) = {}
           /\ (frame_pos > 0 /\ incoming[frame_pos].kind = "malformed" /\ ~ Closed)
                 => outcome = Running
           /\ turn_acc = ref.acc
           /\ IF Closed
              THEN ref.result = Running /\ outcome = Finished
                   /\ Events = ref.out \o <<DoneEvent>>
              ELSE outcome = ref.result /\ Events = ref.out

\* A malformed frame was handled, the turn went on, and the text frame
\* behind it produced its delta.
C14_Witness ==
    /\ frame_pos >= 2
    /\ incoming[frame_pos - 1].kind = "malformed"
    /\ incoming[frame_pos].kind = "text"
    /\ \E k \in EventsOf(frame_pos) : outward[k].event = Delta(incoming[frame_pos].text)
    /\ outcome = Running

\* C15: for each provider, an error frame of the provider ends the turn: the
\* command returns the provider's message as its error, no done event is
\* emitted, and no frame behind it is handled.
C15_ErrorFrameTerminal ==
    \A i \in 1..frame_pos :
        incoming[i].kind = "error" =>
            /\ outcome = Err(incoming[i].text)
            /\ frame_pos = i
            /\ \A k \in 1..Len(outward) : outward[k].event # DoneEvent

\* The cumulative text the Gemini turn has seen before frame i.
SeenBefore(i) ==
    LET earlier == {j \in 1..(i - 1) : incoming[j].kind = "text"}
    IN IF earlier = {} THEN <<>>
       ELSE incoming[CHOOSE j \in earlier : \A m \in earlier : m <= j].text

\* The text delta the frame i must produce on its own, <<>> for none.
OwnText(i) ==
    IF provider = "google" THEN new_text(incoming[i].text, SeenBefore(i))
    ELSE incoming[i].text

RECURSIVE TextBefore(_)
\* The text the turn has emitted in its first k events: the text deltas and
\* the synthesized paragraph breaks, in order.
TextBefore(k) ==
    IF k = 0 THEN <<>> ELSE TextBefore(k - 1) \o outward[k].event.text

IsCitation(k) == outward[k].event.char_offset # -1

\* C20: for Anthropic, every inline citation carries as char_offset the
\* length, in characters, of the text accumulated before its frame: the text
\* deltas and paragraph breaks emitted before it.
C20_CitationAtTextLength ==
    provider = "anthropic" =>
        \A k \in 1..Len(outward) :
            IsCitation(k) => outward[k].event.char_offset = Len(TextBefore(k - 1))

\* C20, second half: an event that was emitted is never changed afterwards.
C20_EmittedOffsetsStable ==
    [][SubSeq(outward', 1, Len(outward)) = outward]_vars

\* C20 with the length the code takes, in bytes of UTF-8.
C20_CitationAtByteLength ==
    provider = "anthropic" =>
        \A k \in 1..Len(outward) :
            IsCitation(k) => outward[k].event.char_offset = len(TextBefore(k - 1))

(***************************************************************************)
(* Properties of a discovery stream.                                       *)
(***************************************************************************)

\* C16: a discovery stream never emits both discovery-error and
\* discovery-done for its turn_id; after a chunk read fails, the turn has
\* emitted discovery-error and no discovery-done.
C16_ErrorOrDoneNeverBoth ==
    ~ (Has(d_emitted, "discovery-error") /\ Has(d_emitted, "discovery-done"))

(***************************************************************************)
(* Properties of a voice turn.                                             *)
(***************************************************************************)

\* Where pat occurs in s.
Occurrences(s, pat) ==
    {i \in 1..(Len(s) - Len(pat) + 1) : SubSeq(s, i, i + Len(pat) - 1) = pat}

\* s contains the start tag followed by the end tag.
HasTagPair(s) ==
    \E i \in Occurrences(s, start_tag) : \E j \in Occurrences(s, end_tag) : i < j

\* The text of s between its first start tag and its first end tag.
BetweenTags(s) == SubSeq(s, Find(s, start_tag) + Len(start_tag), Find(s, end_tag) - 1)

Transcriptions == {k \in 1..Len(v_emitted) : v_emitted[k].name = "voice-transcription"}
Received == SubSeq(v_response, 1, v_pos)

\* C18: the voice-transcription event is emitted at most once; it is emitted
\* by the first text delta after which the accumulated text contains the
\* start tag followed by the end tag, and carries the trimmed text between
\* the two tags; no later delta emits it again, whatever tags follow.  (It is
\* not emitted at all only while no pair is there, or when an end tag comes
\* before the first start tag.)
C18_TranscriptionOnce ==
    /\ Cardinality(Transcriptions) <= 1
    /\ transcription_emitted <=> Transcriptions # {}
    /\ \A k \in Transcriptions :
          LET e == v_emitted[k]
          IN /\ HasTagPair(SubSeq(v_response, 1, e.to))
             /\ ~ HasTagPair(SubSeq(v_response, 1, e.from))
             /\ e.text = trim(BetweenTags(SubSeq(v_response, 1, e.to)))
    /\ (~ transcription_emitted /\ HasTagPair(Received))
          => Find(Received, end_tag) < Find(Received, start_tag)

\* The transcription was emitted, and later frames brought a second pair of
\* tags, each frame producing a plain delta and no second transcription.
C18_Witness ==
    /\ Cardinality(Transcriptions) = 1
    /\ \E k \in Transcriptions :
          /\ HasTagPair(SubSeq(v_response, v_emitted[k].to + 1, v_pos))
          /\ Len(v_emitted) > k
          /\ \A l \in (k + 1)..Len(v_emitted) : v_emitted[l].name = "chat-stream-delta"

RECURSIVE DeltaText(_)
\* The text deltas among the first k events, concatenated.
DeltaText(k) ==
    IF k = 0 THEN <<>>
    ELSE DeltaText(k - 1)
         \o (IF v_emitted[k].name = "chat-stream-delta" THEN v_emitted[k].text ELSE <<>>)

\* The text of s behind its first end tag.
AfterEndTag(s) == SubSeq(s, Find(s, end_tag) + Len(end_tag), Len(s))

\* C19: when the response holds a complete transcription block and has been
\* received in full, the text deltas emitted, concatenated, are the text
\* behind the closing tag without its leading white space, however the
\* response was cut into cumulative frames.
C19_DeltasAreTrimmedRest ==
    (v_pos = Len(v_response) /\ extract_transcription(v_response).some)
        => DeltaText(Len(v_emitted)) = trim_start(AfterEndTag(v_response))

\* C17 in the voice turn: events are emitted in the order of their frames, and
\* a text delta is the end of what its own frame added to the response.
C17_VoiceDeltaOfOwnFrame ==
    /\ \A k \in 1..Len(v_emitted) :
          v_emitted[k].name = "chat-stream-delta" =>
              ends_with(SubSeq(v_response, v_emitted[k].from + 1, v_emitted[k].to),
                        v_emitted[k].text)
    /\ \A k, l \in 1..Len(v_emitted) : k < l => v_emitted[k].to <= v_emitted[l].to

(***************************************************************************)
(* Properties of the Gemini grounding offset.                              *)
(***************************************************************************)

\* C21: for every end_index the conversion succeeds and char_offset is the
\* number of characters of the response text that lie before byte offset
\* end_index, an end_index past the end being clamped to the text length.
C21_OffsetIsCharCount ==
    g_offset.done =>
        /\ ~ g_offset.panicked
        /\ g_offset.value = CharsBefore(g_text, Min(g_end_index, len(g_text)))

(***************************************************************************)
(* Properties of the lock of the token slot and of the start of a turn.    *)
(***************************************************************************)

ChatTurn(c) == call_kind[c] \in Providers

\* C22: a turn whose provider has no credential in the store fails fast: it
\* never issues a network request, never gets as far as the request or the
\* stream, emits no event at all (no delta, done or cancelled), and what it
\* returns is the "API key not found" error.
C22_MissingKeyFailsFast ==
    \A c \in Calls :
        (ChatTurn(c) /\ call_kind[c] \notin keys) =>
            /\ c \notin requests
            /\ call_events[c] = <<>>
            /\ call_pc[c] \notin {"connect", "select", "file_fetch"}
            /\ call_pc[c] = "returned" => call_ret[c] = KeyNotFound

\* A turn without a credential has returned its error while another turn,
\* whose credential is stored, has issued its request and is streaming.
C22_Witness ==
    \E c, d \in Calls :
        /\ ChatTurn(c) /\ call_kind[c] \notin keys
        /\ call_pc[c] = "returned" /\ call_ret[c] = KeyNotFound
        /\ d \in requests /\ call_events[d] # <<>>

\* C24: the mutex of the token slot is held only while a token is installed
\* or taken and fired: its holder is never at an await point, a task at an
\* await point never holds it, and the holder can always take the step that
\* releases it, so a task waiting for the lock is never blocked for good.
C24_LockNeverHeldAcrossAwait ==
    /\ lock_holder # 0 => call_pc[lock_holder] = "holding"
    /\ \A c \in Calls : call_pc[c] \in AwaitPoints => lock_holder # c
    /\ \A c \in Calls :
          lock_holder = c => ENABLED (InstallAndUnlock(c) \/ TakeFireAndUnlock(c))

\* A cancel holds the lock while a turn is suspended in its select, and an
\* install holds it while a cancel waits for it.
C24_Witness ==
    \E c, d \in Calls :
        /\ lock_holder = c
        /\ \/ call_kind[c] = "cancel" /\ call_pc[d] = "select"
           \/ ChatTurn(c) /\ call_kind[d] = "cancel" /\ call_pc[d] = "lock"

\* C23: once the token of a turn that is streaming is fired, the turn
\* eventually returns (cancelled, done or error), whatever the network does.
InLoop(c) == ChatTurn(c) /\ call_pc[c] \in {"select", "file_fetch"}
C23_FiredTurnTerminates ==
    \A c \in Calls : (InLoop(c) /\ c \in fired) ~> (call_pc[c] = "returned")

\* What the select does give: a fired turn never stays at the select; it
\* returns or goes into the fetch of a file's metadata.
C23_FiredTurnLeavesSelect ==
    \A c \in Calls :
        (call_pc[c] = "select" /\ c \in fired) ~> (call_pc[c] \in {"returned", "file_fetch"})

(***************************************************************************)
(* Properties of the extractor on documents of other shapes.               *)
(***************************************************************************)

\* The position of the first opening bracket of the document: the bracket
\* of the array that holds doc_items.
FirstBracket ==
    CHOOSE i \in 1..Len(doc) : doc[i] = "[" /\ \A j \in 1..(i - 1) : doc[j] # "["
\* The position of the last character of the k-th element.
ElementEnd(k) == FirstBracket + JoinedLen(SubSeq(doc_items, 1, k))
\* The position of the closing bracket of the first array.
ArrayClose == FirstBracket + JoinedLen(doc_items) + 1
\* s ends with "items"[ , "items":[ or "items": [
EndsWithItemsBracket(s) ==
    \/ ends_with(s, <<"Q", "i", "t", "e", "m", "s", "Q", "[">>)
    \/ ends_with(s, <<"Q", "i", "t", "e", "m", "s", "Q", ":", "[">>)
    \/ ends_with(s, <<"Q", "i", "t", "e", "m", "s", "Q", ":", " ", "[">>)
\* The first array of the document is the value of the "items" key.
FirstArrayIsItems == EndsWithItemsBracket(SubSeq(doc, 1, FirstBracket))
\* The extractor has entered an array and seen its closing bracket.
ArrayClosed == parse_state.found_items_key /\ ~ parse_state.in_items_array

RECURSIVE ParsedElements(_, _)
\* From the k-th on, the elements that end at or before position upto and
\* deserialize as a DiscoveryItem.
ParsedElements(k, upto) ==
    IF k > Len(doc_items) THEN <<>>
    ELSE (IF ElementEnd(k) <= upto THEN from_str_DiscoveryItem(doc_items[k]) ELSE <<>>)
         \o ParsedElements(k + 1, upto)

\* C25: once the extractor has seen the closing bracket of the array it had
\* entered, the items returned are those of that array, and no later call
\* returns an item or enters an array again, whatever the document goes on
\* with.
C25_ClosedArrayStaysClosed ==
    /\ [](ArrayClosed => YieldedItems = ParsedElements(1, Len(doc)))
    /\ [][ArrayClosed => (ArrayClosed' /\ yielded' = yielded)]_vars

\* {"items":[{F}],"items":[{F}]} was fed to its end, the closing bracket and
\* the second array in different calls: one item, of the first array.
C25_Witness ==
    /\ ArrayClosed
    /\ doc_pos = Len(doc)
    /\ FirstArrayIsItems
    /\ Len(doc) > ArrayClose + 1
    /\ doc_items = << <<"{", "F", "}">> >>
    /\ Len(yielded) = 1
    /\ yielded[1].to = ArrayClose

\* C26: in the items array, an object that closes at depth 0 and does not
\* deserialize is dropped: the call that consumes its closing brace leaves
\* current_item empty and the extractor in the array, and the items returned
\* so far are the elements closed so far that deserialize, in order.
C26_FailedCandidateDiscarded ==
    FirstArrayIsItems =>
        /\ YieldedItems = ParsedElements(1, doc_pos)
        /\ \A k \in 1..Len(doc_items) :
               (doc_pos = ElementEnd(k) /\ Head(doc_items[k]) = "{")
                   => (parse_state.current_item = <<>> /\ parse_state.in_items_array)

\* {"items":[{"a":1},{F}]} was fed to its end: the first object was dropped,
\* the second returned.
C26_Witness ==
    /\ FirstArrayIsItems
    /\ doc_pos = Len(doc)
    /\ doc_items = << <<"{", "a", "}">>, <<"{", "F", "}">> >>
    /\ YieldedItems = << doc_items[2] >>

\* C27: in the items array, whatever the split into calls, the characters
\* inside string literals change nothing: the extractor stays in the array
\* up to the array's closing bracket and leaves it there, and at the end of
\* every element it is at depth 0, outside any string, with no escape
\* pending.
C27_StringsAreOpaque ==
    FirstArrayIsItems =>
        /\ (FirstBracket <= doc_pos /\ doc_pos < ArrayClose) => parse_state.in_items_array
        /\ doc_pos >= ArrayClose => ArrayClosed
        /\ \A k \in 1..Len(doc_items) :
               doc_pos = ElementEnd(k)
                   => /\ parse_state.brace_depth = 0
                      /\ parse_state.bracket_depth = 0
                      /\ ~ parse_state.in_string
                      /\ ~ parse_state.escape_next

\* A document whose array holds the string "]}" and an item with a string
\* holding an escaped quote, a bracket and a brace was fed to its end one
\* character at a time (the backslash and the quote in different calls): the
\* item was returned by the call that consumed its closing brace.
C27_Witness ==
    /\ FirstArrayIsItems
    /\ feed = "chars"
    /\ doc_pos = Len(doc)
    /\ doc_items = << <<"Q", "]", "}", "Q">>,
                      <<"{", "F", ",", "Q", "BS", "Q", "]", "}", "Q", "}">> >>
    /\ Len(yielded) = 1
    /\ yielded[1] = [to |-> ElementEnd(2), item |-> doc_items[2]]

\* C28: fed one character at a time, the extractor enters an array only in
\* the call that consumes a "[" directly following the "items" key: the text
\* fed so far ends with "items"[ , "items":[ or "items": [ .
C28_EntersOnlyAfterItemsKey ==
    [][(feed = "chars" /\ ~ parse_state.in_items_array /\ parse_state'.in_items_array)
          => EndsWithItemsBracket(SubSeq(doc, 1, doc_pos'))]_vars

(***************************************************************************)
(* Properties of the content blocks of an Anthropic turn.                  *)
(***************************************************************************)

\* The index of the frame that starts the block frame i belongs to (for a
\* start frame, the frame itself).
StartOf(i) ==
    CHOOSE s \in 1..i :
        /\ block_frames[s].frame = "content_block_start"
        /\ \A j \in (s + 1)..i : block_frames[j].frame # "content_block_start"
\* The stop frames before frame i.
StopsBefore(i) == {j \in 1..(i - 1) : block_frames[j].frame = "content_block_stop"}
\* The type of the block stopped last before frame i; "" if none was.
LastStoppedType(i) ==
    IF StopsBefore(i) = {} THEN ""
    ELSE LET j == CHOOSE m \in StopsBefore(i) : \A o \in StopsBefore(i) : o <= m
         IN block_frames[StartOf(j)].block_type
\* The block types after which a text block is set off by a paragraph break.
NonTextBlocks ==
    {"thinking", "server_tool_use", "web_search_tool_result",
     "bash_code_execution_tool_result", "text_editor_code_execution_tool_result"}
\* The paragraph breaks emitted for frame i.
BreaksAt(i) ==
    {k \in 1..Len(block_out) :
        block_out[k].at = i /\ block_out[k].delta = TextBlockDelta(ParagraphBreak)}
RECURSIVE EmittedText(_)
\* The text of the text deltas in out, concatenated.
EmittedText(out) ==
    IF out = <<>> THEN <<>>
    ELSE (IF Head(out).delta.kind = "text" THEN Head(out).delta.text ELSE <<>>)
         \o EmittedText(Tail(out))

RECURSIVE OwnFragments(_, _)
\* The input_json fragments of the frames s..i, concatenated in order.
OwnFragments(s, i) ==
    IF s > i THEN <<>>
    ELSE (IF block_frames[s].block_type = "input_json_delta" THEN block_frames[s].payload ELSE <<>>)
         \o OwnFragments(s + 1, i)
\* The ToolExecutionStarted deltas emitted for frame i.
StartedAt(i) ==
    {k \in 1..Len(block_out) :
        block_out[k].at = i /\ block_out[k].delta.kind = "execution started"}

\* C30: a ToolExecutionStarted delta is emitted only for the stop frame of a
\* code-execution block whose own fragments, concatenated in arrival order,
\* are a JSON value, and then exactly one, with the code of that input.
C30_ExecutionStartedPerBlock ==
    \A i \in 1..block_pos :
        LET s == StartOf(i)
            own == OwnFragments(s, i)
        IN IF /\ block_frames[i].frame = "content_block_stop"
              /\ is_code_execution_block(block_frames[s])
              /\ from_str_Value(own).some
           THEN /\ Cardinality(StartedAt(i)) = 1
                /\ \A k \in StartedAt(i) :
                       block_out[k].delta = ExecutionStarted(block_frames[s].tool, CommandOf(own))
           ELSE StartedAt(i) = {}

(***************************************************************************)
(* Properties of an OpenAI code-interpreter call.                          *)
(***************************************************************************)

\* The deltas carrying code that were emitted for frame i.
CodeAt(i) == {k \in 1..Len(ci_out) : ci_out[k].at = i /\ ci_out[k].delta.code.some}
\* The index of the last output_item.added frame before frame i, 0 if none.
CallStart(i) ==
    LET added == {j \in 1..(i - 1) : ci_frames[j] = ItemAdded}
    IN IF added = {} THEN 0 ELSE CHOOSE m \in added : \A o \in added : o <= m
RECURSIVE DeltaCode(_, _)
\* The code of the code.delta frames s..i, concatenated in order.
DeltaCode(s, i) ==
    IF s > i THEN <<>>
    ELSE (IF ci_frames[s].type = "response.code_interpreter_call.code.delta"
          THEN ci_frames[s].code ELSE <<>>) \o DeltaCode(s + 1, i)

\* C31 as stated: a delta carrying code is emitted only when an
\* output_item.done frame is handled.
C31_CodeHeldUntilItemDone ==
    \A i \in 1..ci_pos : CodeAt(i) # {} => ci_frames[i] = ItemDone

\* C31, amended: code is held until the call's code.done frame.  No delta
\* carrying code is emitted for any other frame; for a code.done frame
\* exactly one is, with the code of that frame or, when that is empty, the
\* code of the deltas since the call's output_item.added, in order.
C31_CodeHeldUntilCodeDone ==
    \A i \in 1..ci_pos :
        IF ci_frames[i].type = "response.code_interpreter_call.code.done"
        THEN /\ Cardinality(CodeAt(i)) = 1
             /\ \A k \in CodeAt(i) :
                    ci_out[k].delta.code.value =
                        IF ci_frames[i].code # <<>> THEN ci_frames[i].code
                        ELSE DeltaCode(CallStart(i) + 1, i)
        ELSE CodeAt(i) = {}

\* A call with two code deltas, a code.done without code and its
\* output_item.done was handled: the code of the deltas was emitted at the
\* code.done frame, the result after it.
C31_Witness ==
    /\ ci_frames = <<ItemAdded, CodeDelta(<<"x">>), CodeDelta(<<"y">>), CodeDone(<<>>), ItemDone>>
    /\ ci_pos = 5
    /\ ci_out = << [at |-> 4, delta |-> InterpStarted(<<"x", "y">>)],
                   [at |-> 5, delta |-> InterpResult] >>

(***************************************************************************)
(* Properties of the Gemini parser.                                        *)
(***************************************************************************)

Surfaced(ev) == \E k \in 1..Len(gm_events) : gm_events[k] = ev

\* C32: a parsed frame that holds candidate text and grounding metadata with
\* facts (and no error) yields both a TextDelta and the grounding metadata
\* the citations are built from.
C32_TextAndGroundingBothSurface ==
    (/\ gm_pc = "parsed"
     /\ gm_frame.json /\ ~gm_frame.error
     /\ HasTextPart(gm_frame)
     /\ HasGroundingFacts(gm_frame))
        => Surfaced("TextDelta") /\ Surfaced("GroundingMetadata")

\* C33: in a chat turn of any provider, after each frame handled, the
\* accumulated response text is the text fields of the events emitted so
\* far, concatenated in the order of emission: text deltas and paragraph
\* breaks add to both, citations and the done event to neither.
C33_ResponseIsEmittedText ==
    provider \in Providers => turn_acc.full_response = TextBefore(Len(outward))

\* A Gemini turn handled the cumulative values "a" and "a U+00E9": the
\* differences were emitted and make up the response text.
C33_Witness ==
    /\ provider = "google"
    /\ frame_pos = 2
    /\ Events = <<Delta(<<"a">>), Delta(<<"U+00E9">>)>>
    /\ turn_acc.full_response = <<"a", "U+00E9">>

(***************************************************************************)
(* Properties of a voice turn to its end.                                  *)
(***************************************************************************)

\* The response has no start tag followed by an end tag, or its first end
\* tag comes before its first start tag.
NoTranscriptionBlock(s) ==
    \/ ~ HasTagPair(s)
    \/ \E j \in Occurrences(s, end_tag) : \A i \in Occurrences(s, start_tag) : j < i

VoiceTextDeltas == {k \in 1..Len(v_emitted) : v_emitted[k].name = "chat-stream-delta"}

\* C34: in a voice turn every text delta comes after the voice-transcription
\* event; and a turn whose response has no transcription block (an end tag
\* before the first start tag included) never emits a text delta nor a
\* transcription, and ends having emitted chat-stream-done and nothing else.
C34_NoTextBeforeTranscription ==
    /\ [](\A k \in VoiceTextDeltas : \E j \in Transcriptions : j < k)
    /\ (NoTranscriptionBlock(v_response) =>
            /\ [](VoiceTextDeltas = {} /\ Transcriptions = {})
            /\ <>[](/\ v_outcome = "done"
                    /\ v_emitted = <<VoiceEvent("chat-stream-done", <<>>,
                                                Len(v_response), Len(v_response))>>))

\* A response whose first end tag comes before its start tag, with text and
\* a second end tag behind: the turn ended with done alone.
C34_Witness ==
    /\ v_response = end_tag \o start_tag \o <<"h">> \o end_tag
    /\ v_outcome = "done"
    /\ Len(v_emitted) = 1
    /\ v_emitted[1].name = "chat-stream-done"

(***************************************************************************)
(* Properties of the byte stream to its end.                               *)
(***************************************************************************)

\* The frames of the text on the wire that end with the delimiter.
TerminatedFrames ==
    IF decoder = "blank_line" THEN SplitBlankLine(wire, <<>>).frames
    ELSE SplitNewline(wire, <<>>).frames

\* C35: when the connection has closed and the turn is done, the parser was
\* handed one frame per delimiter on the wire and no more: what the buffer
\* still holds, a last frame without its delimiter, was handed to nobody.
C35_UnterminatedTailDropped ==
    sse_outcome = "done" => Len(frames) = Len(TerminatedFrames)

\* A frame, its blank line and one more character: the turn is done, the
\* frame was handed on and the character is still in the buffer.
C35_Witness ==
    /\ decoder = "blank_line"
    /\ wire = <<"x", "LF", "LF", "x">>
    /\ sse_outcome = "done"
    /\ frames = << <<"x">> >>
    /\ buffer = <<"x">>

(***************************************************************************)
(* Properties of the extractor on an array with a stray closing brace.     *)
(***************************************************************************)

\* The items of the array, in order, without the stray braces.
WellFormedItems == SelectSeq(doc_items, LAMBDA o : o = <<"{", "F", "}">>)

\* C36: brace_depth is never negative, and once the document has been fed
\* in full every well-formed item of the array has been extracted, stray
\* closing braces between the items or not.
C36_BraceDepthNeverNegative ==
    /\ parse_state.brace_depth >= 0
    /\ doc_pos = Len(doc) =>
           [k \in 1..Len(yielded) |-> yielded[k].item] =
               WellFormedItems

(***************************************************************************)
(* Properties of the audio recorder.                                       *)
(***************************************************************************)

\* The recording threads that have not ended, and those whose stream plays.
AliveThreads == {t \in AudioCalls : thread_pc[t] \in {"setup", "polling", "dropped"}}
AppendingThreads == {t \in AudioCalls : thread_pc[t] = "polling"}
\* A start was rejected, or a stop or a cancel has returned.
RejectedOrStopped ==
    \E c \in AudioCalls :
        \/ cmd_kind[c] = "start_audio_recording" /\ cmd_pc[c] = "rejected"
        \/ cmd_kind[c] \in StopCommands /\ cmd_pc[c] \in {"returned", "failed"}
        \/ cmd_kind[c] = "cancel_audio_recording" /\ cmd_pc[c] = "returned"

\* C37: at most one recording thread is alive and appending samples, and
\* no recording thread is alive while the state is Idle after a start was
\* rejected or a recording was stopped or cancelled.
C37_OneRecordingThread ==
    /\ Cardinality(AppendingThreads) <= 1
    /\ (rec_state = "Idle" /\ RejectedOrStopped) => AliveThreads = {}

\* C38: a stop command that has set the state to Stopping returns.
C38_StopReturns ==
    \A c \in AudioCalls :
        (cmd_kind[c] \in StopCommands /\ cmd_pc[c] = "wait")
            ~> (cmd_pc[c] \in {"returned", "failed"})

(***************************************************************************)
(* Properties of the credential store.                                     *)
(***************************************************************************)

\* The saves that have returned Ok, and the last of them for a provider
\* does not matter here: the calls of one behaviour save different keys.
ReturnedSaves == {c \in KeyCalls : key_op[c].op = "save" /\ key_pc[c] = "returned"}
SavedProviders == {key_op[c].provider : c \in ReturnedSaves}

\* C39: once saves for two different providers have returned success, the
\* cache holds a key for each of the two, a get begun afterwards returns a
\* key for its provider, and, when no save is in between its two writes,
\* the cache equals the file.
C39_NoLostUpdate ==
    TwoSavesReturned =>
        /\ keys_cache.some
        /\ \A p \in SavedProviders : keys_cache.value[p] # 0
        /\ \A g \in KeyCalls :
               (key_op[g].op = "get" /\ key_after[g] /\ key_pc[g] \in {"returned", "not_found"})
                   => key_result[g] # 0
        /\ (\A c \in KeyCalls : key_pc[c] # "written") => keys_cache.value = key_file

=============================================================================
